---- MODULE Spec2Model ----
(***************************************************************************)
(* A model of k8s-crd-schema-sync: the OpenAPI v3 -> JSON Schema           *)
(* converter, the CRD normaliser (parseCRDs), the change detector and      *)
(* persister (saveSchemas / detectChangedSchemas) and the orchestrating    *)
(* entry points (runSync, downloadCRDsFromSources, dumpCRDsFromCluster).   *)
(*                                                                         *)
(* JSON values are tagged records, so that values of different JavaScript  *)
(* types can be compared:                                                  *)
(*   [u |-> ..] undefined   [z |-> ..] null      [s |-> string]            *)
(*   [n |-> number]         [b |-> boolean]      [a |-> <<elements>>]      *)
(*   [t |-> <<tokens>>]     a string the program takes apart or compares   *)
(*   [o |-> << <<key, value>>, ... >>]  an object, keys in insertion order *)
(* Strings that the program concatenates (kinds, versions, groups, paths,  *)
(* messages) are sequences of tokens, so concatenation is \o.              *)
(***************************************************************************)
EXTENDS Integers, Sequences, FiniteSets, TLC

VARIABLES
    pc,       \* position of the running entry point / harness
    input,    \* argument of the pure function being applied
    output,   \* its result
    disk,     \* the file system below the output directory: path -> file
    crds,     \* the ParsedCRD list in hand (allCRDs)
    changed,  \* result of the last detectChangedSchemas
    files,    \* result of the last saveSchemas: sequence of <<path, content>>
    ops,      \* the last two file operations performed, oldest first
    tampers,  \* number of edits made to the output directory from outside
    cmd,      \* the entry point that is running
    config,   \* the merged SyncConfig
    world,    \* what the network and the kubeconfig answered, per fetch
    idx,      \* index of the next source of config.sources
    result,   \* the SyncResult being built
    written,  \* paths written by Bun.write during the run
    staged    \* the files handed to createPRWithFiles, or "none"

vars == <<pc, input, output, disk, crds, changed, files, ops, tampers, cmd,
          config, world, idx, result, written, staged>>

-----------------------------------------------------------------------------
(* Bounds of the model *)

MaxDepth == 2      \* nesting depth of the generated schema inputs
MaxCRDs == 2       \* raw CRDs given to one parseCRDs call
MaxVersions == 2   \* version entries of one raw CRD
MaxRecords == 2    \* records given to the file operations harness
MaxTamper == 1     \* edits of the output directory made from outside
MaxSources == 2    \* configured sources of one run
MaxLines == 4      \* lines of a response body given to fetchCRDsFromURL
MaxFiles == 2      \* files of one pull request
MaxResolutions == 2  \* credential resolutions of one process
MaxElapsed == 1      \* milliseconds that pass between them

-----------------------------------------------------------------------------
(* JSON values *)

Undefined == [u |-> "undefined"]
Null == [z |-> "null"]
Str(x) == [s |-> x]
Num(x) == [n |-> x]
Bool(x) == [b |-> x]
Tok(x) == [t |-> x]      \* a string held as a sequence of tokens
Arr(x) == [a |-> x]
Obj(x) == [o |-> x]

IsUndefined(v) == DOMAIN v = {"u"}
IsNull(v) == DOMAIN v = {"z"}
IsStr(v) == DOMAIN v = {"s"}
IsTok(v) == DOMAIN v = {"t"}
IsNum(v) == DOMAIN v = {"n"}
IsBool(v) == DOMAIN v = {"b"}
IsArr(v) == DOMAIN v = {"a"}
IsObj(v) == DOMAIN v = {"o"}

\* typeof v === 'object' (true of null, arrays and plain objects)
TypeofObject(v) == IsNull(v) \/ IsArr(v) \/ IsObj(v)

\* JavaScript truthiness, as used by `if (obj.x)`
Truthy(v) ==
    CASE IsUndefined(v) -> FALSE
      [] IsNull(v) -> FALSE
      [] IsStr(v) -> v.s # ""
      [] IsTok(v) -> v.t # <<>>
      [] IsNum(v) -> v.n # 0
      [] IsBool(v) -> v.b
      [] OTHER -> TRUE

Range(seq) == {seq[i] : i \in DOMAIN seq}

\* Own enumerable string keys of an array: "0", "1", ...
IndexKey(i) == CASE i = 1 -> "0" [] i = 2 -> "1" [] i = 3 -> "2" [] OTHER -> "3"

\* Object.entries(v) for a value that is not null or undefined
Entries(v) ==
    CASE IsObj(v) -> v.o
      [] IsArr(v) -> [i \in DOMAIN v.a |-> <<IndexKey(i), v.a[i]>>]
      [] OTHER -> <<>>

KeysOf(v) == [i \in DOMAIN Entries(v) |-> Entries(v)[i][1]]

HasKey(v, k) == \E i \in DOMAIN Entries(v) : Entries(v)[i][1] = k

\* obj[k]: the property's value, undefined when the object has no such key
Get(v, k) ==
    IF HasKey(v, k)
    THEN Entries(v)[CHOOSE i \in DOMAIN Entries(v) : Entries(v)[i][1] = k][2]
    ELSE Undefined

\* obj[k] = val on a plain object: in place when the key exists, else appended
SetKey(v, k, val) ==
    IF HasKey(v, k)
    THEN Obj([i \in DOMAIN v.o |-> IF v.o[i][1] = k THEN <<k, val>> ELSE v.o[i]])
    ELSE Obj(Append(v.o, <<k, val>>))

\* One optional entry of an object literal under construction
Opt(cond, k, val) == IF cond THEN << <<k, val>> >> ELSE <<>>

-----------------------------------------------------------------------------
(* schema-converter.ts *)

SchemaDialect == Str("http://json-schema.org/draft-07/schema#")

\* obj.required.filter((r) => typeof r === 'string')
FilterStrings(seq) == SelectSeq(seq, IsStr)

\* A placeholder without a type
PlaceholderEmpty == Obj(<<>>)

\* return { type: 'unknown' }
Placeholder == Obj(<< <<"type", Str("unknown")>> >>)

VendorExtensions ==
    << "x-kubernetes-validations", "x-kubernetes-preserve-unknown-fields",
       "x-kubernetes-pruning", "x-kubernetes-list-type", "x-kubernetes-list-map-keys",
       "x-kubernetes-int-or-string", "x-kubernetes-embedded-resource" >>

\* A converter that copies every vendor extension the node carries
copyVendorExtensionsAll(obj) ==
    LET copyFrom[i \in 1..(Len(VendorExtensions) + 1)] ==
            IF i > Len(VendorExtensions) THEN <<>>
            ELSE Opt(HasKey(obj, VendorExtensions[i]), VendorExtensions[i],
                     Get(obj, VendorExtensions[i])) \o copyFrom[i + 1]
    IN copyFrom[1]

\* The two vendor extension blocks of convertSchema: x-kubernetes-validations
\* is looked at and left out, x-kubernetes-preserve-unknown-fields is copied
\* when truthy
copyVendorExtensions(obj) ==
    Opt(Truthy(Get(obj, "x-kubernetes-preserve-unknown-fields")),
        "x-kubernetes-preserve-unknown-fields",
        Get(obj, "x-kubernetes-preserve-unknown-fields"))

RECURSIVE convertSchema(_)

\* An additionalProperties block that converts whatever value it finds
convertAdditionalPropertiesAlways(addl) == convertSchema(addl)

\* The additionalProperties block of convertSchema, for a defined value
convertAdditionalProperties(addl) ==
    IF TypeofObject(addl) THEN convertSchema(addl) ELSE addl

\* The body of convertSchema. (TLC evaluates an operator's argument anew at
\* every use; convertSchema below hands the body an evaluated node.)
convertSchemaBody(schema) ==
    IF ~TypeofObject(schema) \/ IsNull(schema)
    THEN Placeholder
    ELSE LET obj == schema
             g(k) == Get(obj, k)
             copyIfTruthy(k) == Opt(Truthy(g(k)), k, g(k))
             copyIfNumber(k) == Opt(IsNum(g(k)), k, g(k))
             mapList(k) ==
                 Opt(IsArr(g(k)), k,
                     Arr([i \in DOMAIN g(k).a |-> convertSchema(g(k).a[i])]))
             props == g("properties")
             addl == g("additionalProperties")
         IN Obj(
                copyIfTruthy("type")
             \o copyIfTruthy("description")
             \o copyIfTruthy("enum")
             \o Opt(~IsUndefined(g("default")), "default", g("default"))
             \o Opt(Truthy(g("format")) /\ IsStr(g("format")), "format", g("format"))
             \o copyIfNumber("minimum")
             \o copyIfNumber("maximum")
             \o copyIfNumber("exclusiveMinimum")
             \o copyIfNumber("exclusiveMaximum")
             \o copyIfNumber("minLength")
             \o copyIfNumber("maxLength")
             \o copyIfTruthy("pattern")
             \o Opt(Truthy(g("items")), "items", convertSchema(g("items")))
             \o copyIfNumber("minItems")
             \o copyIfNumber("maxItems")
             \o Opt(Truthy(props) /\ TypeofObject(props), "properties",
                    Obj([i \in DOMAIN Entries(props) |->
                            <<Entries(props)[i][1],
                              convertSchema(Entries(props)[i][2])>>]))
             \o Opt(~IsUndefined(addl), "additionalProperties",
                    convertAdditionalProperties(addl))
             \o Opt(IsArr(g("required")), "required",
                    Arr(FilterStrings(g("required").a)))
             \o mapList("allOf")
             \o mapList("anyOf")
             \o mapList("oneOf")
             \o Opt(Truthy(g("not")), "not", convertSchema(g("not")))
             \o copyIfTruthy("$ref")
             \o copyVendorExtensions(obj)
             \o copyIfTruthy("example")
             \o copyIfTruthy("examples"))

convertSchema(schema) == CHOOSE r \in {convertSchemaBody(node) : node \in {schema}} : TRUE

\* { $schema: ..., ...converted, type: converted.type }
convertOpenAPIv3ToJSONSchema(openAPIv3) ==
    CHOOSE r \in
        { SetKey(Obj(<< <<"$schema", SchemaDialect>> >> \o converted.o),
                 "type", Get(converted, "type")) :
          converted \in {convertSchema(openAPIv3)} } : TRUE

-----------------------------------------------------------------------------
(* Schema inputs: openAPIV3Schema values, built by nesting *)

TString == Obj(<< <<"type", Str("string")>> >>)
TObject == Obj(<< <<"type", Str("object")>> >>)
TInteger == Obj(<< <<"type", Str("integer")>> >>)
Empty == Obj(<<>>)

LeafSchemas == {TString, TObject, TInteger, Empty}

\* { type: 'object', properties: { spec: n } }
WithProperties(n) ==
    Obj(<< <<"type", Str("object")>>,
           <<"properties", Obj(<< <<"spec", n>> >>)>> >>)

\* { type: 'array', items: n }
WithItems(n) == Obj(<< <<"type", Str("array")>>, <<"items", n>> >>)

\* { properties: { size: n }, additionalProperties: true, type: 'object' }
WithOpenProperties(n) ==
    Obj(<< <<"properties", Obj(<< <<"size", n>> >>)>>,
           <<"additionalProperties", Bool(TRUE)>>,
           <<"type", Str("object")>> >>)

\* { additionalProperties: n }: a map with no type of its own
WithAdditional(n) == Obj(<< <<"additionalProperties", n>> >>)

\* { allOf: [n] }
WithAllOf(n) == Obj(<< <<"allOf", Arr(<<n>>)>> >>)

Wrap(n) == {WithProperties(n), WithItems(n), WithOpenProperties(n),
            WithAdditional(n), WithAllOf(n)}

RECURSIVE SchemasUpTo(_)
SchemasUpTo(d) ==
    IF d = 0 THEN LeafSchemas
    ELSE LET S == SchemasUpTo(d - 1) IN S \cup UNION {Wrap(n) : n \in S}

InputSchemas == SchemasUpTo(MaxDepth)

(* Schema inputs that carry keywords with values of every JavaScript type,  *)
(* and nodes that are no objects at all                                     *)

ScalarKeywords ==
    {"type", "description", "enum", "default", "pattern", "$ref", "example", "examples"}

NonObjects == {Null, Str("x"), Str(""), Num(0), Num(1), Bool(TRUE), Bool(FALSE)}

KeywordValues ==
    NonObjects \cup {Arr(<<Str("a")>>), Obj(<< <<"rule", Str("self.size > 0")>> >>)}

\* { [k]: v }
KeywordNode(k, v) == Obj(<< <<k, v>> >>)

\* A node as a CRD of a controller carries it
VendorNode ==
    Obj(<< <<"type", Str("object")>>,
           <<"x-kubernetes-preserve-unknown-fields", Bool(TRUE)>>,
           <<"x-kubernetes-validations",
             Arr(<<Obj(<< <<"rule", Str("self.size > 0")>> >>)>>)>>,
           <<"x-kubernetes-embedded-resource", Bool(TRUE)>> >>)

KeywordLeaves ==
    NonObjects \cup {VendorNode}
    \cup {KeywordNode(k, v) :
            k \in ScalarKeywords \cup Range(VendorExtensions) \cup {"additionalProperties"},
            v \in KeywordValues}

\* { not: n }
WithNot(n) == Obj(<< <<"not", n>> >>)

RECURSIVE KeywordSchemasUpTo(_)
KeywordSchemasUpTo(d) ==
    IF d <= 0 THEN KeywordLeaves
    ELSE LET S == KeywordSchemasUpTo(d - 1)
         IN S \cup UNION {Wrap(n) \cup {WithNot(n)} : n \in S}

KeywordSchemas == KeywordSchemasUpTo(MaxDepth - 1)

-----------------------------------------------------------------------------
(* JSON.stringify / JSON.parse / Object.keys / Array.prototype.sort *)

\* Every key of the model, in UTF-16 code unit order (the default sort order)
KeyOrder ==
    << "$ref", "$schema", "0", "1", "2", "3", "a", "additionalProperties",
       "allOf", "anyOf", "changed", "default", "description", "enum",
       "example", "examples", "exclusiveMaximum", "exclusiveMinimum",
       "format", "items", "maxItems", "maxLength", "maximum", "minItems",
       "minLength", "minimum", "not", "oneOf", "pattern", "properties",
       "required", "size", "spec", "type",
       "x-kubernetes-preserve-unknown-fields" >>

\* keys.sort()
SortKeys(keys) == LET in(k) == k \in Range(keys) IN SelectSeq(KeyOrder, in)

\* What JSON.stringify emits for v: with a replacer array K (useList) only the
\* keys of K are emitted, in K's order, in EVERY object of the tree; without
\* one, every key in insertion order. A property whose value is undefined is
\* left out; an undefined array element is emitted as null.
RECURSIVE Serialize(_, _, _)
SerializeBody(v, useList, K) ==
    CASE IsObj(v) ->
           LET ks == IF useList THEN K ELSE KeysOf(v)
               emitted(k) == HasKey(v, k) /\ ~IsUndefined(Get(v, k))
               kept == SelectSeq(ks, emitted)
           IN Obj([i \in DOMAIN kept |->
                      <<kept[i], Serialize(Get(v, kept[i]), useList, K)>>])
      [] IsArr(v) ->
           Arr([i \in DOMAIN v.a |->
                   IF IsUndefined(v.a[i]) THEN Null
                   ELSE Serialize(v.a[i], useList, K)])
      [] OTHER -> v

Serialize(v, useList, K) ==
    CHOOSE r \in {SerializeBody(node, useList, list) : node \in {v}, list \in {K}} : TRUE

\* A JSON text is the emitted tree and the indentation it was written with
JsonText(indent, tree) == [indent |-> indent, tree |-> tree]

\* JSON.stringify(v, null, 2)
StringifyPretty(v) == JsonText(2, Serialize(v, FALSE, <<>>))

\* JSON.stringify(v, keys): keys is the replacer array
StringifyWithReplacer(v, keys) == JsonText(0, Serialize(v, TRUE, keys))

\* A text that is not JSON
Garbage == [garbage |-> "not json"]

IsJsonText(t) == DOMAIN t = {"indent", "tree"}

\* JSON.parse(t) of a JSON text (it throws on any other text)
JsonParse(t) == t.tree

\* Object.keys(v) throws a TypeError for null and undefined
ObjectKeysThrows(v) == IsNull(v) \/ IsUndefined(v)

\* Object.keys(v) otherwise (a string's index keys are not modelled)
ObjectKeys(v) == KeysOf(v)

-----------------------------------------------------------------------------
(* Strings the program concatenates are token sequences *)

\* String.prototype.toLowerCase, token by token
LowerToken(t) ==
    CASE t = "Widget" -> "widget"
      [] t = "WIDGET" -> "widget"
      [] t = "Gadget" -> "gadget"
      [] t = "V1" -> "v1"
      [] OTHER -> t

ToLowerCase(str) == [i \in DOMAIN str |-> LowerToken(str[i])]

\* A file name that keeps the letter case of kind and version
generateSchemaFilenameVerbatim(kind, version) ==
    kind \o <<"_">> \o version \o <<".json">>

\* `${normalizedKind}_${normalizedVersion}.json`
generateSchemaFilename(kind, version) ==
    ToLowerCase(kind) \o <<"_">> \o ToLowerCase(version) \o <<".json">>

\* `${group}/${filename}`: the path below the output directory, and the key of
\* the map saveSchemas returns (generateSchemaPath / getSchemaPath)
generateSchemaPath(group, kind, version) ==
    group \o <<"/">> \o generateSchemaFilename(kind, version)

SchemaPath(crd) == generateSchemaPath(crd.group, crd.kind, crd.version)

-----------------------------------------------------------------------------
(* file-operations.ts *)

\* States of a path of the file system that is not a readable text
NoFile == [absent |-> TRUE]
Unreadable == [unreadable |-> TRUE]

\* f.exists()
Exists(file) == file # NoFile

\* The try block of detectChangedSchemas throws when f.text() rejects, when
\* JSON.parse rejects the text, or when Object.keys is given null
CompareThrows(file) ==
    \/ file = Unreadable
    \/ ~IsJsonText(file)
    \/ ObjectKeysThrows(JsonParse(file))

\* Mutant: no catch block, the exception leaves detectChangedSchemas
OnCompareFailureRethrow == "threw"

\* The catch block: "If we can't read/parse, consider it changed."
OnCompareFailure == "changed"

\* One iteration of the loop of detectChangedSchemas over the directory d:
\* "changed", "same", or "threw" when an exception leaves the loop
DetectOneBody(schema, f) ==
    IF ~Exists(f) THEN "changed"
    ELSE IF CompareThrows(f) THEN OnCompareFailure
    ELSE LET existing == JsonParse(f)
             newContent ==
                 StringifyWithReplacer(schema, SortKeys(ObjectKeys(schema)))
             existingContent ==
                 StringifyWithReplacer(existing, SortKeys(ObjectKeys(existing)))
         IN IF newContent # existingContent THEN "changed" ELSE "same"

DetectOne(crd, d) ==
    CHOOSE r \in
        { DetectOneBody(schema, f) :
          schema \in {convertOpenAPIv3ToJSONSchema(crd.openAPIV3Schema)},
          f \in {d[SchemaPath(crd)]} } : TRUE

\* detectChangedSchemas(newCRDs, workDir): the changed records in input order,
\* or threw when an iteration threw
RECURSIVE detectChangedSchemas(_, _)
detectChangedSchemas(newCRDs, d) ==
    IF newCRDs = <<>> THEN [threw |-> FALSE, changed |-> <<>>]
    ELSE CHOOSE r \in
           { IF one = "threw" \/ rest.threw
             THEN [threw |-> TRUE, changed |-> <<>>]
             ELSE [threw |-> FALSE,
                   changed |-> (IF one = "changed" THEN <<Head(newCRDs)>> ELSE <<>>)
                               \o rest.changed] :
             one \in {DetectOne(Head(newCRDs), d)},
             rest \in {detectChangedSchemas(Tail(newCRDs), d)} } : TRUE

\* A map that keeps an entry per assignment
PutFileAppend(fs, key, content) == Append(fs, <<key, content>>)

\* files[key] = content on the Record that saveSchemas returns
PutFile(fs, key, content) ==
    IF \E i \in DOMAIN fs : fs[i][1] = key
    THEN [i \in DOMAIN fs |-> IF fs[i][1] = key THEN <<key, content>> ELSE fs[i]]
    ELSE Append(fs, <<key, content>>)

\* files[key] of that Record, undefined when the key is missing
FileOf(fs, key) ==
    IF \E i \in DOMAIN fs : fs[i][1] = key
    THEN fs[CHOOSE i \in DOMAIN fs : fs[i][1] = key][2]
    ELSE Undefined

\* The text saveSchemas writes for a record
SavedContent(crd) == StringifyPretty(convertOpenAPIv3ToJSONSchema(crd.openAPIV3Schema))

\* The loop of saveSchemas from the state st = [disk, files, written, threw];
\* failAt is the position of the record whose mkdir or Bun.write fails
RECURSIVE SaveLoop(_, _, _, _)
SaveLoopBody(list, st, pos, failAt) ==
    IF list = <<>> THEN st
    ELSE IF pos = failAt THEN [st EXCEPT !.threw = TRUE]
    ELSE CHOOSE r \in
           { SaveLoop(Tail(list),
                      [disk |-> [st.disk EXCEPT ![key] = content],
                       files |-> PutFile(st.files, key, content),
                       written |-> st.written \cup {key},
                       threw |-> FALSE],
                      pos + 1, failAt) :
             key \in {SchemaPath(Head(list))},
             content \in {SavedContent(Head(list))} } : TRUE

SaveLoop(list, st, pos, failAt) ==
    CHOOSE r \in {SaveLoopBody(l, s, pos, failAt) : l \in {list}, s \in {st}} : TRUE

\* saveSchemas(crds, workDir) on the directory d. failAt = 0: creating workDir
\* fails; 1..Len(list): that record's mkdir or write fails; beyond: no failure
saveSchemas(list, d, failAt) ==
    LET st0 == [disk |-> d, files |-> <<>>, written |-> {}, threw |-> FALSE]
    IN IF failAt = 0 THEN [st0 EXCEPT !.threw = TRUE]
       ELSE SaveLoop(list, st0, 1, failAt)

NoFailure(list) == Len(list) + 1

-----------------------------------------------------------------------------
(* crd-parser.ts: parseCRDs *)

GroupA == <<"examples", ".", "k8s", ".", "io">>
GroupB == <<"others", ".", "k8s", ".", "io">>

\* str.split('.')[0]
FirstDotSegment(str) ==
    IF \E i \in DOMAIN str : str[i] = "."
    THEN SubSeq(str, 1, (CHOOSE i \in DOMAIN str :
                            str[i] = "." /\ \A j \in 1..(i - 1) : str[j] # ".") - 1)
    ELSE str

\* YAML.stringify(crd)
YamlStringify(crd) == [yaml |-> crd]

\* Mutant: the group test applied to every source, whatever its type and
\* whether or not it names a group
SkippedByGroupAlways(crd, source) == Tok(crd.spec.group) # source.group

\* The group test of parseCRDs: TRUE when the CRD is skipped
SkippedByGroup(crd, source) ==
    /\ source.type = "url"
    /\ Truthy(source.group)
    /\ Tok(crd.spec.group) # source.group

\* Mutant: a version entry is emitted whether or not it carries a schema
SkippedVersionNever(versionSpec) == FALSE

\* The test on a version entry: TRUE when the entry is skipped with a warning
SkippedVersion(versionSpec) == ~Truthy(versionSpec.schema)

\* The records of one CRD: the inner loop over crd.spec.versions
RECURSIVE ParseVersions(_, _, _)
ParseVersions(crd, versions, source) ==
    IF versions = <<>> THEN <<>>
    ELSE LET versionSpec == Head(versions)
             rest == ParseVersions(crd, Tail(versions), source)
         IN IF SkippedVersion(versionSpec) THEN rest
            ELSE << [name |-> crd.metadata.name,
                     pluralName |-> FirstDotSegment(crd.metadata.name),
                     group |-> crd.spec.group,
                     kind |-> crd.spec.names.kind,
                     version |-> versionSpec.name,
                     openAPIV3Schema |-> versionSpec.schema,
                     rawYAML |-> YamlStringify(crd),
                     source |-> source] >> \o rest

RECURSIVE parseCRDs(_, _)
parseCRDs(list, source) ==
    IF list = <<>> THEN <<>>
    ELSE LET crd == Head(list)
             rest == parseCRDs(Tail(list), source)
         IN IF SkippedByGroup(crd, source) THEN rest
            ELSE ParseVersions(crd, crd.spec.versions, source) \o rest

(* Inputs of parseCRDs *)

\* A version entry; schema is versionSpec.schema?.openAPIV3Schema
VersionEntry(name, schema) == [name |-> name, schema |-> schema]

VersionEntries ==
    { VersionEntry(<<"v1">>, WithProperties(TObject)),
      VersionEntry(<<"v2">>, TObject),
      VersionEntry(<<"v1beta1">>, Undefined) }

RECURSIVE SeqsUpTo(_, _)
SeqsUpTo(S, n) ==
    IF n = 0 THEN {<<>>}
    ELSE LET shorter == SeqsUpTo(S, n - 1)
         IN shorter \cup {Append(q, x) : q \in shorter, x \in S}

\* The sequences of at most n different elements of S
RECURSIVE DistinctSeqsUpTo(_, _)
DistinctSeqsUpTo(S, n) ==
    IF n = 0 THEN {<<>>}
    ELSE LET shorter == DistinctSeqsUpTo(S, n - 1)
         IN shorter \cup UNION {{Append(q, x) : x \in S \ Range(q)} : q \in shorter}

RawCRD(plural, group, kind, versions) ==
    [apiVersion |-> <<"apiextensions.k8s.io/v1">>,
     kind |-> <<"CustomResourceDefinition">>,
     metadata |-> [name |-> <<plural, ".">> \o group],
     spec |-> [group |-> group, names |-> [kind |-> kind], versions |-> versions]]

RawCRDs ==
    {RawCRD("widgets", GroupA, <<"Widget">>, vs) : vs \in DistinctSeqsUpTo(VersionEntries, MaxVersions)}
    \cup {RawCRD("gadgets", GroupB, <<"Gadget">>, << VersionEntry(<<"V1">>, TString) >>)}

URLSource(name, group, enabled) ==
    [type |-> "url", id |-> name, name |-> name, url |-> <<"https://", name>>,
     group |-> group, enabled |-> enabled]

ClusterSource(name, group, enabled) ==
    [type |-> "k8s-cluster", id |-> name, name |-> name, context |-> Undefined,
     namespace |-> Undefined, apiServerUrl |-> Undefined, caPath |-> Undefined,
     group |-> group, enabled |-> enabled]

ParseSources ==
    { URLSource(<<"S">>, Undefined, Bool(TRUE)),
      URLSource(<<"S">>, Tok(<<>>), Bool(TRUE)),
      URLSource(<<"S">>, Tok(GroupA), Bool(TRUE)),
      ClusterSource(<<"K">>, Undefined, Bool(TRUE)),
      ClusterSource(<<"K">>, Tok(GroupA), Bool(TRUE)) }

-----------------------------------------------------------------------------
(* The output directory and the records of the file operations *)

Groups == {GroupA, GroupB}
Kinds == {<<"Widget">>, <<"widget">>, <<"Gadget">>}
Versions == {<<"v1">>, <<"V1">>, <<"v2">>, <<"v1beta1">>}

AllPaths == {generateSchemaPath(g, k, v) : g \in Groups, k \in Kinds, v \in Versions}

EmptyDisk == [p \in AllPaths |-> NoFile]

\* A ParsedCRD literal, as the unit tests build one
ParsedCRD(plural, group, kind, version, schema) ==
    [name |-> <<plural, ".">> \o group,
     pluralName |-> <<plural>>,
     group |-> group,
     kind |-> kind,
     version |-> version,
     openAPIV3Schema |-> schema,
     rawYAML |-> <<>>,
     source |-> URLSource(<<"t">>, Undefined, Undefined)]

WidgetV1 == ParsedCRD("widgets", GroupA, <<"Widget">>, <<"v1">>, WithProperties(TObject))
GadgetV1 == ParsedCRD("gadgets", GroupB, <<"Gadget">>, <<"V1">>, WithAdditional(TString))
LowerWidgetV1 == ParsedCRD("widgets", GroupA, <<"widget">>, <<"V1">>, TString)

FileRecords == {WidgetV1, GadgetV1, LowerWidgetV1}

\* The window of the last two operations
Last2(window, op) ==
    IF Len(window) < 2 THEN Append(window, op) ELSE <<window[2], op>>

LastOp == IF ops = <<>> THEN "none" ELSE ops[Len(ops)]

(* Edits of a schema file made from outside the program *)

\* The same JSON value with the keys of every object in reverse order
RECURSIVE ReverseKeys(_)
ReverseKeysBody(v) ==
    CASE IsObj(v) ->
           Obj([i \in DOMAIN v.o |->
                  <<v.o[Len(v.o) + 1 - i][1], ReverseKeys(v.o[Len(v.o) + 1 - i][2])>>])
      [] IsArr(v) -> Arr([i \in DOMAIN v.a |-> ReverseKeys(v.a[i])])
      [] OTHER -> v

ReverseKeys(v) == CHOOSE r \in {ReverseKeysBody(node) : node \in {v}} : TRUE

\* path leads through objects of v
RECURSIVE LeadsThroughObjects(_, _)
LeadsThroughObjects(v, path) ==
    \A node \in {v} : \A keys \in {path} :
        /\ IsObj(node)
        /\ IF Len(keys) = 0 THEN TRUE
           ELSE LeadsThroughObjects(Get(node, Head(keys)), Tail(keys))

\* v with the value at path (a non-empty key sequence) set to val
RECURSIVE SetAt(_, _, _)
SetAtBody(v, path, val) ==
    IF Len(path) = 1 THEN SetKey(v, Head(path), val)
    ELSE SetKey(v, Head(path), SetAt(Get(v, Head(path)), Tail(path), val))

SetAt(v, path, val) ==
    CHOOSE r \in {SetAtBody(node, keys, val) : node \in {v}, keys \in {path}} : TRUE

Front(path) == SubSeq(path, 1, Len(path) - 1)

FileEdits ==
    { [path |-> <<"type">>, val |-> Str("array")],
      [path |-> <<"properties", "spec", "type">>, val |-> Str("string")],
      [path |-> <<"properties", "spec", "a">>, val |-> Str("x")],
      [path |-> <<"additionalProperties", "type">>, val |-> Str("integer")] }

\* JSON.stringify({ changed: true }), the file-operations test's overwrite
ChangedTrue == JsonText(0, Obj(<< <<"changed", Bool(TRUE)>> >>))

\* The text `null`
NullText == JsonText(0, Null)

-----------------------------------------------------------------------------
(* Exceptions and messages *)

Threw(msg) == [threw |-> TRUE, error |-> msg]
Returned(v) == [threw |-> FALSE, value |-> v]

\* `${error}` of an Error object
ErrorToString(msg) == <<"Error: ">> \o msg

NoKubeconfigMsg == <<"No kubeconfig found. Please ensure kubeconfig is at ~/.kube/config or KUBECONFIG is set">>
InvalidResponseMsg == <<"Invalid response structure - expected items array">>
TokenRequiredMsg == <<"GITHUB_TOKEN environment variable is required to create PRs">>
WriteFailedMsg == <<"EACCES: permission denied">>
GitHubFailedMsg == <<"GitHub API error">>
HttpErrorMsg(status) == <<"HTTP ", status>>

-----------------------------------------------------------------------------
(* crd-parser.ts and k8s-client.ts: fetching *)

\* A response body is a sequence of lines: a line that is exactly ---, a
\* blank line, the text of one YAML document, or text that is not YAML
SeparatorLine == [line |-> "---"]
BlankLine == [line |-> ""]
BrokenLine == [line |-> "{ not: yaml"]
DocLine(v) == [line |-> "document", value |-> v]

\* content.split(/^---$/m)
RECURSIVE SplitDocuments(_)
SplitDocuments(lines) ==
    IF \A i \in DOMAIN lines : lines[i] # SeparatorLine THEN <<lines>>
    ELSE LET at == CHOOSE i \in DOMAIN lines :
                      /\ lines[i] = SeparatorLine
                      /\ \A j \in 1..(i - 1) : lines[j] # SeparatorLine
         IN <<SubSeq(lines, 1, at - 1)>> \o SplitDocuments(SubSeq(lines, at + 1, Len(lines)))

\* .filter((doc) => doc.trim().length > 0)
NonBlank(doc) == \E i \in DOMAIN doc : doc[i] # BlankLine
NonEmptyDocuments(documents) == SelectSeq(documents, NonBlank)

\* One YAML document of a response body, as YAML.parse sees it
BadYamlDoc == [parses |-> FALSE, value |-> Undefined]
YamlDoc(v) == [parses |-> TRUE, value |-> v]

\* YAML.parse(doc): text that is not YAML throws, and so do two documents
\* that are not separated (their keys are duplicates of each other)
YamlParse(doc) ==
    LET isText(l) == l # BlankLine
        text == SelectSeq(doc, isText)
    IN IF \E i \in DOMAIN text : text[i] = BrokenLine THEN BadYamlDoc
       ELSE IF Len(text) > 1 THEN BadYamlDoc
       ELSE IF Len(text) = 0 THEN YamlDoc(Null)
       ELSE YamlDoc(text[1].value)

\* parsed && parsed.kind === 'CustomResourceDefinition'
IsCRD(parsed) ==
    /\ "kind" \in DOMAIN parsed
    /\ parsed.kind = <<"CustomResourceDefinition">>

\* A loop that gives up at the first document that does not parse
RECURSIVE KeepCRDsUntilFailure(_)
KeepCRDsUntilFailure(docs) ==
    IF docs = <<>> THEN <<>>
    ELSE LET doc == YamlParse(Head(docs))
         IN IF ~doc.parses THEN <<>>
            ELSE (IF IsCRD(doc.value) THEN <<doc.value>> ELSE <<>>)
                 \o KeepCRDsUntilFailure(Tail(docs))

\* The loop of fetchCRDsFromURL over the documents: a document that does not
\* parse is logged and skipped, one of another kind is dropped
RECURSIVE KeepCRDs(_)
KeepCRDs(docs) ==
    IF docs = <<>> THEN <<>>
    ELSE LET doc == YamlParse(Head(docs))
         IN (IF doc.parses /\ IsCRD(doc.value) THEN <<doc.value>> ELSE <<>>)
            \o KeepCRDs(Tail(docs))

\* fetchCRDsFromURL(source) when the server answers with `answer`
fetchCRDsFromURL(source, answer) ==
    IF ~answer.ok
    THEN Threw(<<"Failed to fetch CRDs from ">> \o source.name \o <<": ">>
               \o ErrorToString(HttpErrorMsg(answer.status)))
    ELSE Returned(KeepCRDs(NonEmptyDocuments(SplitDocuments(answer.body))))

\* loadKubeConfig(): the parsed kubeconfig of the first path that holds one
loadKubeConfig(answer) ==
    IF answer.kubeconfig = "missing" THEN Threw(NoKubeconfigMsg)
    ELSE Returned(answer.content)

\* expandUser(path) of utils.ts; a path is a sequence of tokens and a leading
\* ~ is a token of its own
expandUser(path, home) ==
    IF path # <<>> /\ Head(path) = "~"
    THEN IF ~Truthy(home) THEN path ELSE <<home.s>> \o Tail(path)
    ELSE path

\* Buffer.from(data, 'base64').toString('utf-8')
Base64Decode(data) ==
    CASE data = "Q0E=" -> "CA"
      [] data = "Q0Ey" -> "CA2"
      [] data = "Q0VSVA==" -> "CERT"
      [] data = "S0VZ" -> "KEY"
      [] OTHER -> "?"

\* list.find((e) => e.name === name)
Find(list, name) ==
    IF \E i \in DOMAIN list : list[i].name = name
    THEN list[CHOOSE i \in DOMAIN list :
                 /\ list[i].name = name
                 /\ \A j \in DOMAIN list : list[j].name = name => i <= j]
    ELSE Undefined

NoCurrentContextMsg == <<"No current context found in kubeconfig and no context specified">>
ContextNotFoundMsg(name) == <<"Context '", name.s, "' not found in kubeconfig">>
ClusterNotFoundMsg(name) ==
    <<"Cluster '", IF IsStr(name) THEN name.s ELSE "undefined", "' not found in kubeconfig">>
ServerNotFoundMsg(name) == <<"Server URL not found for cluster '", name.s, "'">>

\* `/tmp/k8s-ca-${Date.now()}.crt` and its like
TempPath(item, now, ext) == <<"/tmp/k8s-", item, "-", ToString(now), ext>>

\* A resolver that prefers the embedded data to the path
PathOrDataEmbeddedFirst(path, data, item, ext, env) ==
    IF Truthy(data)
    THEN [value |-> Tok(TempPath(item, env.now, ext)),
          temps |-> << [path |-> TempPath(item, env.now, ext),
                        content |-> Base64Decode(data.s)] >>]
    ELSE IF Truthy(path)
    THEN [value |-> Tok(expandUser(path.t, env.home)), temps |-> <<>>]
    ELSE [value |-> Undefined, temps |-> <<>>]

\* One of the three path-or-data blocks of getAuthConfig: the value of the
\* profile's field and the temporary files written for it
PathOrData(path, data, item, ext, env) ==
    IF Truthy(path)
    THEN [value |-> Tok(expandUser(path.t, env.home)), temps |-> <<>>]
    ELSE IF Truthy(data)
    THEN [value |-> Tok(TempPath(item, env.now, ext)),
          temps |-> << [path |-> TempPath(item, env.now, ext),
                        content |-> Base64Decode(data.s)] >>]
    ELSE [value |-> Undefined, temps |-> <<>>]

UserNotFoundMsg(name) ==
    <<"User '", IF IsStr(name) THEN name.s ELSE "undefined", "' not found in kubeconfig">>

\* A resolver that rejects a context whose user has no entry
OnMissingUserThrow(userName) == Threw(UserNotFoundMsg(userName))

\* if (!user) logger.warn(...): resolution goes on without a user
OnMissingUser(userName) == Returned(Undefined)

\* An exec block that runs the plugin whenever the user entry declares one
ExecWantedAlways(user, token) == Truthy(user.user.exec)

\* if (user.user.exec && !authConfig.token)
ExecWanted(user, token) == Truthy(user.user.exec) /\ ~Truthy(token)

\* The exec block of getAuthConfig for a command: the token obtained, or
\* undefined when the program does not start, its output is not JSON or the
\* JSON holds no status.token
ExecToken(plugin) ==
    IF ~plugin.starts THEN Undefined
    ELSE IF ~IsJsonText(plugin.output) THEN Undefined
    ELSE IF IsNull(JsonParse(plugin.output)) THEN Undefined
    ELSE IF Truthy(Get(Get(JsonParse(plugin.output), "status"), "token"))
    THEN Get(Get(JsonParse(plugin.output), "status"), "token")
    ELSE Undefined

\* A selection that prefers the kubeconfig's current-context
SelectContextCurrentFirst(kubeconfig, contextName) ==
    IF Truthy(kubeconfig.currentContext) THEN kubeconfig.currentContext ELSE contextName

\* contextName || kubeconfig['current-context']
SelectContext(kubeconfig, contextName) ==
    IF Truthy(contextName) THEN contextName ELSE kubeconfig.currentContext

\* getAuthConfig(kubeconfig, contextName) in the environment env = [home, now,
\* plugin]; besides the profile the result names the temporary files written
\* and the commands spawned
getAuthConfigBody(kubeconfig, contextName, env) ==
    LET failed(msg) == [threw |-> TRUE, error |-> msg, value |-> Undefined,
                        temps |-> <<>>, spawned |-> <<>>]
        none == [value |-> Undefined, temps |-> <<>>]
        \* from `const authConfig` to the return
        profile(cluster, user, ca, cert, key, static, runs) ==
            [threw |-> FALSE, error |-> <<>>,
             value |-> [serverUrl |-> cluster.cluster.server,
                        skipTlsVerify |-> cluster.cluster.insecure,
                        caPath |-> ca.value,
                        cert |-> cert.value,
                        key |-> key.value,
                        token |-> IF runs /\ Truthy(ExecToken(env.plugin))
                                  THEN ExecToken(env.plugin) ELSE static],
             temps |-> ca.temps \o cert.temps \o key.temps,
             spawned |-> IF runs THEN <<Get(user.user.exec, "command")>> ELSE <<>>]
        withToken(cluster, user, static) ==
            profile(cluster, user,
                    PathOrData(cluster.cluster.ca, cluster.cluster.caData, "ca", ".crt", env),
                    IF user # Undefined
                    THEN PathOrData(user.user.cert, user.user.certData, "cert", ".crt", env)
                    ELSE none,
                    IF user # Undefined
                    THEN PathOrData(user.user.key, user.user.keyData, "key", ".key", env)
                    ELSE none,
                    static,
                    /\ user # Undefined
                    /\ ExecWanted(user, static)
                    /\ Truthy(Get(user.user.exec, "command")))
        \* from the cluster lookup on
        withUser(clusterName, userName, cluster, user, missing) ==
            IF cluster = Undefined THEN failed(ClusterNotFoundMsg(clusterName))
            ELSE IF user = Undefined /\ missing.threw THEN failed(missing.error)
            ELSE IF ~Truthy(cluster.cluster.server) THEN failed(ServerNotFoundMsg(clusterName))
            ELSE withToken(cluster, user,
                           IF user # Undefined /\ Truthy(user.user.token)
                           THEN user.user.token ELSE Undefined)
        withContext(currentContextName, context) ==
            IF ~Truthy(currentContextName) THEN failed(NoCurrentContextMsg)
            ELSE IF context = Undefined THEN failed(ContextNotFoundMsg(currentContextName))
            ELSE withUser(context.context.cluster, context.context.user,
                          Find(kubeconfig.clusters, context.context.cluster),
                          Find(kubeconfig.users, context.context.user),
                          OnMissingUser(context.context.user))
        withName(currentContextName) ==
            withContext(currentContextName, Find(kubeconfig.contexts, currentContextName))
    IN withName(SelectContext(kubeconfig, contextName))

getAuthConfig(kubeconfig, contextName, env) ==
    CHOOSE r \in {getAuthConfigBody(k, c, e) :
                    k \in {kubeconfig}, c \in {contextName}, e \in {env}} : TRUE

CRDListPath == "/apis/apiextensions.k8s.io/v1/customresourcedefinitions"

\* A request that attaches the CA whenever the profile has a CA path
TlsOptionsCaFirst(authConfig, caReadable) ==
    IF Truthy(authConfig.caPath) /\ caReadable
    THEN [ca |-> <<"contents of ">> \o authConfig.caPath.t]
    ELSE IF Truthy(authConfig.skipTlsVerify) THEN [rejectUnauthorized |-> FALSE]
    ELSE [default |-> TRUE]

\* fetchOptions.tls as fetchCRDsFromCluster sets it; a CA file that cannot be
\* read is warned about and left out
TlsOptions(authConfig, caReadable) ==
    IF Truthy(authConfig.skipTlsVerify) THEN [rejectUnauthorized |-> FALSE]
    ELSE IF Truthy(authConfig.caPath) /\ caReadable
    THEN [ca |-> <<"contents of ">> \o authConfig.caPath.t]
    ELSE [default |-> TRUE]

\* A TypeError's message for a property read on null
NullReadMsg(property) == <<"null is not an object (evaluating 'data.", property, "')">>

\* The Array.isArray(data.items) check and the return of fetchCRDsFromCluster;
\* data.items of null is a TypeError
ItemsOf(data) ==
    IF IsNull(data) THEN Threw(NullReadMsg("items"))
    ELSE IF IsArr(Get(data, "items")) THEN Returned(Get(data, "items").a)
    ELSE Threw(InvalidResponseMsg)

NetworkErrorMsg == <<"Unable to connect. Is the computer able to access the url?">>
BodyNotJsonMsg == <<"Failed to parse JSON">>

\* fetchCRDsFromCluster(contextName, namespace, apiServerUrl, caPath) when the
\* kubeconfig, the environment and the API server are as in `answer`. Every
\* failure is rethrown with a prefix. The result also names the request that
\* was sent, the temporary files written and the commands spawned.
fetchCRDsFromClusterBody(contextName, namespace, apiServerUrl, caPath, answer) ==
    LET prefix == <<"Failed to fetch CRDs from cluster: ">>
        outcome(threw, error, value, request, resolved) ==
            [threw |-> threw, error |-> error, value |-> value, request |-> request,
             temps |-> resolved.temps, spawned |-> resolved.spawned]
        nothing == [temps |-> <<>>, spawned |-> <<>>]
        \* from fetch(url, fetchOptions) on
        receive(resolved, request, items) ==
            IF ~answer.reachable
            THEN outcome(TRUE, prefix \o NetworkErrorMsg, Undefined, request, resolved)
            ELSE IF ~answer.ok
            THEN outcome(TRUE, prefix \o HttpErrorMsg(answer.status), Undefined, request,
                         resolved)
            ELSE IF ~IsJsonText(answer.body)
            THEN outcome(TRUE, prefix \o BodyNotJsonMsg, Undefined, request, resolved)
            ELSE IF items.threw
            THEN outcome(TRUE, prefix \o items.error, Undefined, request, resolved)
            ELSE outcome(FALSE, <<>>, items.value, request, resolved)
        \* the url, the headers and fetchOptions
        send(resolved, authConfig) ==
            receive(resolved,
                    [url |-> <<authConfig.serverUrl.s, CRDListPath>>,
                     method |-> "GET",
                     authorization |-> IF Truthy(authConfig.token)
                                       THEN <<"Bearer ", authConfig.token.s>> ELSE <<>>,
                     tls |-> TlsOptions(authConfig, answer.caReadable)],
                    IF IsJsonText(answer.body) THEN ItemsOf(JsonParse(answer.body))
                    ELSE Undefined)
        \* the apiServerUrl and caPath overrides
        override(resolved) ==
            IF resolved.threw
            THEN outcome(TRUE, prefix \o resolved.error, Undefined, Undefined, resolved)
            ELSE send(resolved,
                      [resolved.value EXCEPT
                          !.serverUrl = IF Truthy(apiServerUrl) THEN apiServerUrl ELSE @,
                          !.caPath = IF Truthy(caPath) THEN caPath ELSE @])
        load(kubeconfig) ==
            IF kubeconfig.threw
            THEN outcome(TRUE, prefix \o kubeconfig.error, Undefined, Undefined, nothing)
            ELSE override(getAuthConfig(kubeconfig.value, contextName, answer.env))
    IN load(loadKubeConfig(answer))

fetchCRDsFromCluster(contextName, namespace, apiServerUrl, caPath, answer) ==
    CHOOSE r \in {fetchCRDsFromClusterBody(c, namespace, u, p, a) :
                    c \in {contextName}, u \in {apiServerUrl}, p \in {caPath},
                    a \in {answer}} : TRUE

\* fetchCRDsFromK8sCluster(source)
fetchCRDsFromK8sCluster(source, answer) ==
    LET got == fetchCRDsFromCluster(source.context, source.namespace,
                                    source.apiServerUrl, source.caPath, answer)
    IN IF got.threw
       THEN Threw(<<"Failed to fetch CRDs from cluster ">> \o source.name \o <<": ">>
                  \o ErrorToString(got.error))
       ELSE Returned(got.value)

\* fetchCRDs(source)
fetchCRDs(source, answer) ==
    IF source.type = "url" THEN fetchCRDsFromURL(source, answer)
    ELSE fetchCRDsFromK8sCluster(source, answer)

\* fetchAndParseCRDs(source)
fetchAndParseCRDs(source, answer) ==
    CHOOSE r \in
        { IF got.threw THEN got ELSE Returned(parseCRDs(got.value, source)) :
          got \in {fetchCRDs(source, answer)} } : TRUE

\* getClusterInfo(contextName)
getClusterInfo(contextName, answer) ==
    LET info(kubeconfig, resolved) ==
            IF resolved.threw THEN Threw(resolved.error)
            ELSE Returned([name |-> <<SelectContext(kubeconfig, contextName).s>>,
                           serverUrl |-> <<resolved.value.serverUrl.s>>])
        load(kubeconfig) ==
            IF kubeconfig.threw THEN kubeconfig
            ELSE info(kubeconfig.value,
                      getAuthConfig(kubeconfig.value, contextName, answer.env))
    IN load(loadKubeConfig(answer))

(* What the servers and the kubeconfig may answer *)

WidgetCRD ==
    RawCRD("widgets", GroupA, <<"Widget">>,
           << VersionEntry(<<"v1">>, WithProperties(TObject)),
              VersionEntry(<<"v1beta1">>, Undefined) >>)

GadgetCRD == RawCRD("gadgets", GroupB, <<"Gadget">>, << VersionEntry(<<"V1">>, TString) >>)

\* A CRD whose root schema has no type
OpenGadgetCRD ==
    RawCRD("gadgets", GroupB, <<"Gadget">>,
           << VersionEntry(<<"v2">>, WithAdditional(TString)) >>)

ConfigMapDoc == [kind |-> <<"ConfigMap">>]

UrlAnswer(ok, status, body) == [ok |-> ok, status |-> status, body |-> body]

UrlAnswers ==
    { UrlAnswer(FALSE, "404", <<>>),
      UrlAnswer(TRUE, "200", <<DocLine(WidgetCRD)>>),
      UrlAnswer(TRUE, "200", <<DocLine(OpenGadgetCRD)>>),
      UrlAnswer(TRUE, "200",
                <<BrokenLine, SeparatorLine, DocLine(ConfigMapDoc), SeparatorLine,
                  DocLine(GadgetCRD)>>) }

\* The lines a response body is made of, and the bodies examined
Lines == {SeparatorLine, BlankLine, BrokenLine, DocLine(WidgetCRD), DocLine(GadgetCRD),
          DocLine(ConfigMapDoc)}

UrlInputs ==
    {[source |-> URLSource(<<"S">>, Undefined, Bool(TRUE)), answer |-> UrlAnswer(ok, status, body)] :
        ok \in {TRUE}, status \in {"200", "204"}, body \in SeqsUpTo(Lines, MaxLines)}
    \cup
    {[source |-> URLSource(<<"S">>, Undefined, Bool(TRUE)), answer |-> UrlAnswer(FALSE, status, body)] :
        status \in {"404", "500"}, body \in SeqsUpTo(Lines, 1)}

\* The entries of a kubeconfig
ContextEntry(name, cluster, user) ==
    [name |-> name, context |-> [cluster |-> cluster, user |-> user]]

ClusterEntry(name, server, insecure, ca, caData) ==
    [name |-> name,
     cluster |-> [server |-> server, insecure |-> insecure, ca |-> ca, caData |-> caData]]

UserEntry(name, cert, certData, key, keyData, token, exec) ==
    [name |-> name,
     user |-> [cert |-> cert, certData |-> certData, key |-> key, keyData |-> keyData,
               token |-> token, exec |-> exec]]

KubeConfig(currentContext, contexts, clusters, users) ==
    [currentContext |-> currentContext, contexts |-> contexts, clusters |-> clusters,
     users |-> users]

\* The kubeconfig of the unit test of getClusterInfo
TestKubeconfig ==
    KubeConfig(Str("test-context"),
               <<ContextEntry(Str("test-context"), Str("test-cluster"), Str("test-user"))>>,
               <<ClusterEntry(Str("test-cluster"), Str("https://127.0.0.1:6443"),
                              Undefined, Undefined, Undefined)>>,
               <<UserEntry(Str("test-user"), Undefined, Undefined, Undefined, Undefined,
                           Undefined, Undefined)>>)

\* What an exec credential plugin does when it is spawned
PluginFails == [starts |-> FALSE, output |-> Garbage]
PluginPrints(text) == [starts |-> TRUE, output |-> text]
PluginToken == PluginPrints(JsonText(0, Obj(<< <<"status",
                  Obj(<< <<"token", Str("exec-token")>> >>)>> >>)))

Env(home, plugin) == [home |-> home, now |-> 1700000000, plugin |-> plugin]

\* The text of a response body that decodes to `data`
Body(data) == JsonText(0, data)

\* The body of a CRD list
ListBody(items) == Body(Obj(<< <<"kind", Str("CustomResourceDefinitionList")>>,
                               <<"items", Arr(items)>> >>))

StatusBody == Body(Obj(<< <<"kind", Str("Status")>> >>))

\* Array.isArray(data.items) of the decoded body
HasItems(body) == IsJsonText(body) /\ IsArr(Get(JsonParse(body), "items"))

ClusterWorld(kubeconfig, content, env, caReadable, reachable, ok, body) ==
    [kubeconfig |-> kubeconfig, content |-> content, env |-> env,
     caReadable |-> caReadable, reachable |-> reachable,
     ok |-> ok, status |-> IF ok THEN "200" ELSE "401",
     body |-> body, hasItems |-> HasItems(body),
     items |-> IF HasItems(body) THEN Get(JsonParse(body), "items").a ELSE <<>>]

ClusterAnswer(kubeconfig, ok, hasItems, items) ==
    ClusterWorld(kubeconfig, TestKubeconfig, Env(Str("/home/u"), PluginFails), TRUE, TRUE, ok,
                 IF hasItems THEN ListBody(items) ELSE StatusBody)

ClusterAnswers ==
    { ClusterAnswer("missing", FALSE, FALSE, <<>>),
      ClusterAnswer("present", FALSE, FALSE, <<>>),
      ClusterAnswer("present", TRUE, FALSE, <<>>),
      ClusterAnswer("present", TRUE, TRUE, <<WidgetCRD, GadgetCRD>>) }

AnswersFor(source) == IF source.type = "url" THEN UrlAnswers ELSE ClusterAnswers

(* Kubeconfigs, environments and responses for the cluster client *)

DevServer == Str("https://dev.example:6443")
ProdServer == Str("https://prod.example:6443")

NoTls(server) == ClusterEntry(Str("c-dev"), server, Undefined, Undefined, Undefined)

PlainUser == UserEntry(Str("u-dev"), Undefined, Undefined, Undefined, Undefined,
                       Undefined, Undefined)

ProdUser == UserEntry(Str("u-prod"), Undefined, Undefined, Undefined, Undefined,
                      Str("prod-token"), Undefined)

\* A kubeconfig with the contexts dev and prod; the user list holds the dev
\* user only when devUsers does
TwoContexts(currentContext, devClusterRef, devCluster, devUsers) ==
    KubeConfig(currentContext,
               << ContextEntry(Str("dev"), devClusterRef, Str("u-dev")),
                  ContextEntry(Str("prod"), Str("c-prod"), Str("u-prod")) >>,
               << devCluster,
                  ClusterEntry(Str("c-prod"), ProdServer, Undefined, Undefined, Undefined) >>,
               devUsers \o <<ProdUser>>)

ContextNames == {Undefined, Str(""), Str("dev"), Str("prod"), Str("ghost")}

CaPaths == {Undefined, Tok(<<>>), Tok(<<"/etc/ca.crt">>), Tok(<<"~", "/ca.crt">>)}
CaDatas == {Undefined, Str(""), Str("Q0E=")}
SkipFlags == {Undefined, Bool(FALSE), Bool(TRUE)}

DevClusters ==
    {ClusterEntry(Str("c-dev"), DevServer, skip, ca, data) :
        skip \in SkipFlags, ca \in CaPaths, data \in CaDatas}

ExecBlocks == {Undefined, Obj(<<>>), Obj(<< <<"command", Str("auth-plugin")>> >>)}
Tokens == {Undefined, Str(""), Str("static-token")}

MaterialUsers ==
    {<<UserEntry(Str("u-dev"), cert, certData, key, keyData, Undefined, Undefined)>> :
        cert \in {Undefined, Tok(<<"~", "/client.crt">>)},
        certData \in {Undefined, Str("Q0VSVA==")},
        key \in {Undefined, Tok(<<"/etc/client.key">>)},
        keyData \in {Undefined, Str("S0VZ")}}

TokenUsers ==
    {<<UserEntry(Str("u-dev"), Undefined, Undefined, Undefined, Undefined, token, exec)>> :
        token \in Tokens, exec \in ExecBlocks}

\* A user list without the dev user, and one whose dev user has everything
NoDevUser == <<>>
FullUser ==
    <<UserEntry(Str("u-dev"), Tok(<<"/etc/client.crt">>), Str("Q0VSVA=="),
                Tok(<<"/etc/client.key">>), Str("S0VZ"), Str("static-token"),
                Obj(<< <<"command", Str("auth-plugin")>> >>))>>

Plugins ==
    { PluginFails,
      PluginPrints(Garbage),
      PluginPrints(JsonText(0, Null)),
      PluginPrints(JsonText(0, Obj(<< <<"status", Obj(<<>>)>> >>))),
      PluginPrints(JsonText(0, Obj(<< <<"kind", Str("ExecCredential")>> >>))),
      PluginToken }

Homes == {Undefined, Str("/home/u")}

\* The calls of getAuthConfig that are examined: context selection and
\* dangling references, key material, and tokens
AuthInputs ==
    {[kubeconfig |-> TwoContexts(current, ref, NoTls(server), users),
      contextName |-> name, env |-> Env(Str("/home/u"), PluginToken)] :
        current \in ContextNames, name \in ContextNames,
        ref \in {Str("c-dev"), Str("c-ghost")}, server \in {DevServer, Undefined},
        users \in {<<PlainUser>>, NoDevUser}}
    \cup
    {[kubeconfig |-> TwoContexts(Str("dev"), Str("c-dev"), cluster, users),
      contextName |-> Undefined, env |-> Env(home, PluginFails)] :
        cluster \in DevClusters, users \in MaterialUsers \cup {NoDevUser}, home \in Homes}
    \cup
    {[kubeconfig |-> TwoContexts(Str("prod"), Str("c-dev"), NoTls(DevServer), users),
      contextName |-> Str("dev"), env |-> Env(Str("/home/u"), plugin)] :
        users \in TokenUsers \cup {NoDevUser, FullUser}, plugin \in Plugins}

Bodies ==
    { Garbage, Body(Null), Body(Str("ok")), Body(Arr(<<>>)), StatusBody,
      Body(Obj(<< <<"items", Null>> >>)),
      Body(Obj(<< <<"items", Obj(<<>>)>> >>)),
      Body(Obj(<< <<"items", Str("none")>> >>)) }
    \cup {ListBody(items) : items \in SeqsUpTo({WidgetCRD, GadgetCRD, ConfigMapDoc}, MaxCRDs)}

CallWith(contextName, apiServerUrl, caPath, answer) ==
    [contextName |-> contextName, namespace |-> Undefined, apiServerUrl |-> apiServerUrl,
     caPath |-> caPath, answer |-> answer]

\* The calls of fetchCRDsFromCluster that are examined: TLS settings and
\* overrides, responses, and credentials
ClusterInputs ==
    {CallWith(Undefined, url, caPath,
              ClusterWorld("present", TwoContexts(Str("dev"), Str("c-dev"), cluster, <<PlainUser>>),
                           Env(Str("/home/u"), PluginFails), readable, TRUE, TRUE,
                           ListBody(<<WidgetCRD>>))) :
        url \in {Undefined, Str("https://override:8443")},
        caPath \in {Undefined, Tok(<<>>), Tok(<<"/override/ca.crt">>)},
        cluster \in DevClusters, readable \in BOOLEAN}
    \cup
    {CallWith(name, Undefined, Undefined,
              ClusterWorld(found, TestKubeconfig, Env(Str("/home/u"), PluginFails), TRUE,
                           reachable, ok, body)) :
        name \in {Undefined, Str("ghost")}, found \in {"missing", "present"},
        reachable \in BOOLEAN, ok \in BOOLEAN, body \in Bodies}
    \cup
    {CallWith(Str("dev"), Undefined, Undefined,
              ClusterWorld("present",
                           TwoContexts(Str("prod"), Str("c-dev"), NoTls(DevServer), users),
                           Env(Str("/home/u"), plugin), TRUE, TRUE, TRUE, ListBody(<<>>))) :
        users \in TokenUsers \cup {NoDevUser}, plugin \in {PluginFails, PluginToken}}

-----------------------------------------------------------------------------
(* github-manager.ts: the calls made on the target repository *)

\* The repository as createPRWithFiles finds it: whether the head branch is
\* there, the commit at the tip of the base branch and the paths it holds
Remote(head, baseSha, basePaths) == [head |-> head, baseSha |-> baseSha, basePaths |-> basePaths]

\* response.data.html_url of pulls.create
PrUrl == <<"https://github.com/owner/repo/pull/1">>

NotFoundMsg == <<"Not Found">>
ReferenceExistsMsg == <<"Reference already exists">>
ReferenceMissingMsg == <<"Reference does not exist">>

\* The manager at work: the calls sent so far, the head branch and the paths
\* on it, the commits made, and how the method ended
StartOf(remote) ==
    [calls |-> <<>>, head |-> remote.head,
     paths |-> IF remote.head = "absent" THEN {} ELSE remote.basePaths,
     committed |-> <<>>, opened |-> FALSE, threw |-> FALSE, error |-> <<>>,
     value |-> Undefined]

\* The server rejects the failAt-th call of the method (0: none)
Rejected(st, failAt) == Len(st.calls) + 1 = failAt

Sent(st, call) == [st EXCEPT !.calls = Append(@, call)]

Thrown(st, msg) == [st EXCEPT !.threw = TRUE, !.error = msg]

\* branchExists(branchName): any failure of the call reads as "no branch"
branchExists(st, failAt) ==
    [st |-> Sent(st, [call |-> "repos.getBranch"]),
     exists |-> st.head # "absent" /\ ~Rejected(st, failAt)]

\* deleteBranch(branchName)
deleteBranch(st, failAt) ==
    IF Rejected(st, failAt) THEN Thrown(Sent(st, [call |-> "git.deleteRef"]), GitHubFailedMsg)
    ELSE IF st.head = "absent"
    THEN Thrown(Sent(st, [call |-> "git.deleteRef"]), ReferenceMissingMsg)
    ELSE [Sent(st, [call |-> "git.deleteRef"]) EXCEPT !.head = "absent", !.paths = {}]

\* getBaseCommitSHA()
getBaseCommitSHA(st, remote, failAt) ==
    IF Rejected(st, failAt)
    THEN [st |-> Thrown(Sent(st, [call |-> "git.getRef"]), GitHubFailedMsg), sha |-> Undefined]
    ELSE [st |-> Sent(st, [call |-> "git.getRef"]), sha |-> remote.baseSha]

\* createBranch(branchName, sha)
createBranch(st, sha, remote, failAt) ==
    IF Rejected(st, failAt)
    THEN Thrown(Sent(st, [call |-> "git.createRef", sha |-> sha]), GitHubFailedMsg)
    ELSE IF st.head # "absent"
    THEN Thrown(Sent(st, [call |-> "git.createRef", sha |-> sha]), ReferenceExistsMsg)
    ELSE [Sent(st, [call |-> "git.createRef", sha |-> sha]) EXCEPT
             !.head = "fresh", !.paths = remote.basePaths]

\* The second half of createOrUpdateFile: createOrUpdateFileContents
putFile(st, path, content, failAt) ==
    IF Rejected(st, failAt)
    THEN Thrown(Sent(st, [call |-> "repos.createOrUpdateFileContents", path |-> path,
                          content |-> content]), GitHubFailedMsg)
    ELSE [Sent(st, [call |-> "repos.createOrUpdateFileContents", path |-> path,
                    content |-> content]) EXCEPT
             !.paths = @ \cup {path}, !.committed = Append(@, <<path, content>>)]

\* createOrUpdateFile(path, content, branch, message): getContent is not
\* guarded, so a path the branch does not hold yet ends the method with the
\* 404 of the API
createOrUpdateFile(st, path, content, failAt) ==
    IF Rejected(st, failAt)
    THEN Thrown(Sent(st, [call |-> "repos.getContent", path |-> path]), GitHubFailedMsg)
    ELSE IF path \notin st.paths
    THEN Thrown(Sent(st, [call |-> "repos.getContent", path |-> path]), NotFoundMsg)
    ELSE putFile(Sent(st, [call |-> "repos.getContent", path |-> path]), path, content, failAt)

\* A loop that goes on to the next file when a commit fails
RECURSIVE CommitFilesKeepGoing(_, _, _)
CommitFilesKeepGoing(st, fs, failAt) ==
    IF fs = <<>> THEN st
    ELSE CommitFilesKeepGoing(
            [createOrUpdateFile(st, fs[1][1], fs[1][2], failAt) EXCEPT
                !.threw = FALSE, !.error = <<>>],
            Tail(fs), failAt)

\* for (const [path, content] of Object.entries(options.files))
RECURSIVE CommitFiles(_, _, _)
CommitFiles(st, fs, failAt) ==
    IF fs = <<>> \/ st.threw THEN st
    ELSE CommitFiles(createOrUpdateFile(st, fs[1][1], fs[1][2], failAt), Tail(fs), failAt)

\* createPullRequest(title, body, headBranch)
createPullRequest(st, failAt) ==
    IF Rejected(st, failAt) THEN Thrown(Sent(st, [call |-> "pulls.create"]), GitHubFailedMsg)
    ELSE [Sent(st, [call |-> "pulls.create"]) EXCEPT !.opened = TRUE, !.value = Tok(PrUrl)]

\* createPRWithFiles(options) on the repository `remote`
createPRWithFilesBody(options, remote, failAt) ==
    LET open(st) == IF st.threw THEN st ELSE createPullRequest(st, failAt)
        commit(st) == IF st.threw THEN st ELSE open(CommitFiles(st, options.files, failAt))
        create(base) ==
            IF base.st.threw THEN base.st
            ELSE commit(createBranch(base.st, base.sha, remote, failAt))
        tip(st) == IF st.threw THEN st ELSE create(getBaseCommitSHA(st, remote, failAt))
        delete(probe) ==
            tip(IF probe.exists THEN deleteBranch(probe.st, failAt) ELSE probe.st)
    IN delete(branchExists(StartOf(remote), failAt))

createPRWithFiles(options, remote, failAt) ==
    CHOOSE r \in {createPRWithFilesBody(o, m, failAt) : o \in {options}, m \in {remote}} : TRUE

\* `crd-sync/${timestamp.slice(0, 10)}`
BranchName == <<"crd-sync/", "2026-01-01">>

\* The calls one createPRWithFiles can make at most
MaxCalls == 2 * MaxFiles + 5

\* The files of a pull request and the repositories it can meet
StagedPaths == {GroupA \o <<"/", "widget", "_", "v1", ".json">>,
                GroupB \o <<"/", "gadget", "_", "v1", ".json">>,
                GroupA \o <<"/", "widget", "_", "v2", ".json">>}

StagedFiles ==
    {[i \in DOMAIN ps |-> <<ps[i], JsonText(2, Obj(<< <<"title", Tok(ps[i])>> >>))>>] :
        ps \in DistinctSeqsUpTo(StagedPaths, MaxFiles)}

Remotes ==
    {Remote(head, sha, paths) :
        head \in {"absent", "stale"}, sha \in {"sha-1", "sha-2"}, paths \in SUBSET StagedPaths}

GitHubInputs ==
    [options : {[files |-> fs, branchName |-> BranchName] : fs \in StagedFiles},
     remote : Remotes, failAt : 0..MaxCalls]

-----------------------------------------------------------------------------
(* Credential resolutions of one process and the files they leave in /tmp *)

\* Date.now() `elapsed` milliseconds after the first resolution
EnvAt(env, elapsed) == [env EXCEPT !.now = @ + elapsed]

\* await Bun.write(temp, data) for each temporary file of a resolution
RECURSIVE WriteTemps(_, _)
WriteTemps(tmp, temps) ==
    IF temps = <<>> THEN tmp
    ELSE WriteTemps(PutFile(tmp, Head(temps).path, Head(temps).content), Tail(temps))

\* The kubeconfigs the process resolves: embedded data or paths for the CA, the
\* client certificate and the client key
TempInputs ==
    {[kubeconfig |-> TwoContexts(Str("dev"), Str("c-dev"),
                                 ClusterEntry(Str("c-dev"), DevServer, Undefined, ca, caData),
                                 <<UserEntry(Str("u-dev"), Undefined, certData, Undefined,
                                             keyData, Undefined, Undefined)>>),
      contextName |-> Undefined, env |-> Env(Str("/home/u"), PluginFails)] :
        ca \in {Undefined, Tok(<<"/etc/ca.crt">>)},
        caData \in {Undefined, Str("Q0E="), Str("Q0Ey")},
        certData \in {Undefined, Str("Q0VSVA==")},
        keyData \in {Undefined, Str("S0VZ")}}

-----------------------------------------------------------------------------
(* Values of the variables a specification does not use *)

HarnessIdle == input = Undefined /\ output = Undefined

FilesIdle ==
    /\ disk = EmptyDisk /\ crds = <<>> /\ changed = <<>> /\ files = <<>>
    /\ ops = <<>> /\ tampers = 0

RunIdle ==
    /\ cmd = "none" /\ config = Undefined /\ world = <<>> /\ idx = 0
    /\ result = Undefined /\ written = {} /\ staged = <<>>

harnessVars == <<input, output>>
filesVars == <<disk, crds, changed, files, ops, tampers>>
runVars == <<cmd, config, world, idx, result, written, staged>>

-----------------------------------------------------------------------------
(* SpecConvert: convertOpenAPIv3ToJSONSchema applied to a schema *)

InitConvert ==
    /\ pc = "convert"
    /\ input \in InputSchemas
    /\ output = Undefined
    /\ FilesIdle /\ RunIdle

Convert ==
    /\ pc = "convert"
    /\ output' = convertOpenAPIv3ToJSONSchema(input)
    /\ pc' = "converted"
    /\ UNCHANGED <<input, filesVars, runVars>>

NextConvert == Convert

SpecConvert == InitConvert /\ [][NextConvert]_vars

(* SpecKeywords: the same call on the schemas that carry keywords *)

InitKeywords ==
    /\ pc = "convert"
    /\ input \in KeywordSchemas
    /\ output = Undefined
    /\ FilesIdle /\ RunIdle

SpecKeywords == InitKeywords /\ [][NextConvert]_vars

-----------------------------------------------------------------------------
(* SpecParse: parseCRDs applied to a list of raw CRDs and a source *)

InitParse ==
    /\ pc = "parse"
    /\ input \in [crds : SeqsUpTo(RawCRDs, MaxCRDs), source : ParseSources]
    /\ output = Undefined
    /\ FilesIdle /\ RunIdle

Parse ==
    /\ pc = "parse"
    /\ output' = parseCRDs(input.crds, input.source)
    /\ pc' = "parsed"
    /\ UNCHANGED <<input, filesVars, runVars>>

NextParse == Parse

SpecParse == InitParse /\ [][NextParse]_vars

-----------------------------------------------------------------------------
(* SpecAuth: getAuthConfig applied to a kubeconfig and a context name *)

InitAuth ==
    /\ pc = "auth"
    /\ input \in AuthInputs
    /\ output = Undefined
    /\ FilesIdle /\ RunIdle

GetAuthConfig ==
    /\ pc = "auth"
    /\ output' = getAuthConfig(input.kubeconfig, input.contextName, input.env)
    /\ pc' = "resolved"
    /\ UNCHANGED <<input, filesVars, runVars>>

NextAuth == GetAuthConfig

SpecAuth == InitAuth /\ [][NextAuth]_vars

(* SpecURL: fetchCRDsFromURL against the answer of a server *)

InitURL ==
    /\ pc = "url"
    /\ input \in UrlInputs
    /\ output = Undefined
    /\ FilesIdle /\ RunIdle

FetchCRDsFromURL ==
    /\ pc = "url"
    /\ output' = fetchCRDsFromURL(input.source, input.answer)
    /\ pc' = "fetched"
    /\ UNCHANGED <<input, filesVars, runVars>>

NextURL == FetchCRDsFromURL

SpecURL == InitURL /\ [][NextURL]_vars

(* SpecGitHub: createPRWithFiles on a repository *)

InitGitHub ==
    /\ pc = "github"
    /\ input \in GitHubInputs
    /\ output = Undefined
    /\ FilesIdle /\ RunIdle

CreatePRWithFiles ==
    /\ pc = "github"
    /\ output' = createPRWithFiles(input.options, input.remote, input.failAt)
    /\ pc' = "published"
    /\ UNCHANGED <<input, filesVars, runVars>>

NextGitHub == CreatePRWithFiles

SpecGitHub == InitGitHub /\ [][NextGitHub]_vars

(* SpecTemp: the credential resolutions of one process; idx is the time in
   milliseconds since the first one, files the directory /tmp *)

InitTemp ==
    /\ pc = "resolve"
    /\ input = Undefined /\ output = Undefined
    /\ disk = EmptyDisk /\ crds = <<>> /\ changed = <<>> /\ files = <<>>
    /\ ops = <<>> /\ tampers = 0
    /\ cmd = "none" /\ config = Undefined /\ world = <<>> /\ idx = 0
    /\ result = Undefined /\ written = {} /\ staged = <<>>

\* One call of getAuthConfig (from getClusterInfo or fetchCRDsFromCluster)
ResolveCredentials ==
    /\ pc = "resolve"
    /\ Len(world) < MaxResolutions
    /\ \E call \in TempInputs :
       \E r \in {getAuthConfig(call.kubeconfig, call.contextName, EnvAt(call.env, idx))} :
          /\ input' = call
          /\ output' = r
          /\ files' = WriteTemps(files, r.temps)
          /\ world' = Append(world, [step |-> "resolve", now |-> EnvAt(call.env, idx).now,
                                     temps |-> r.temps, value |-> r.value])
    /\ UNCHANGED <<pc, idx, disk, crds, changed, ops, tampers, cmd, config, result,
                   written, staged>>

\* The clock reaches the next millisecond
Tick ==
    /\ pc = "resolve"
    /\ idx < MaxElapsed
    /\ idx' = idx + 1
    /\ UNCHANGED <<pc, input, output, files, world, disk, crds, changed, ops, tampers,
                   cmd, config, result, written, staged>>

NextTemp == ResolveCredentials \/ Tick

SpecTemp == InitTemp /\ [][NextTemp]_vars

(* SpecCluster: fetchCRDsFromCluster against a kubeconfig and an API server *)

InitCluster ==
    /\ pc = "cluster"
    /\ input \in ClusterInputs
    /\ output = Undefined
    /\ FilesIdle /\ RunIdle

FetchCRDsFromCluster ==
    /\ pc = "cluster"
    /\ output' = fetchCRDsFromCluster(input.contextName, input.namespace,
                                      input.apiServerUrl, input.caPath, input.answer)
    /\ pc' = "fetched"
    /\ UNCHANGED <<input, filesVars, runVars>>

NextCluster == FetchCRDsFromCluster

SpecCluster == InitCluster /\ [][NextCluster]_vars

-----------------------------------------------------------------------------
(* SpecFiles: saveSchemas calls and edits made from outside on one          *)
(* directory, in any order, and then one detectChangedSchemas call         *)

InitFiles ==
    /\ pc = "files"
    /\ crds \in DistinctSeqsUpTo(FileRecords, MaxRecords)
    /\ disk = EmptyDisk
    /\ changed = <<>> /\ files = <<>> /\ ops = <<>> /\ tampers = 0
    /\ HarnessIdle /\ RunIdle

\* await saveSchemas(crds, dir)
Save ==
    /\ pc = "files"
    /\ \E failAt \in 0..NoFailure(crds) :
         \E r \in {saveSchemas(crds, disk, failAt)} :
            /\ disk' = r.disk
            /\ files' = IF r.threw THEN files ELSE r.files
            /\ ops' = Last2(ops, IF r.threw THEN "saveThrew" ELSE "save")
    /\ UNCHANGED <<pc, crds, changed, tampers, harnessVars, runVars>>

\* await detectChangedSchemas(crds, dir)
Detect ==
    /\ pc = "files"
    /\ \E r \in {detectChangedSchemas(crds, disk)} :
          /\ changed' = IF r.threw THEN changed ELSE r.changed
          /\ ops' = Last2(ops, IF r.threw THEN "detectThrew" ELSE "detect")
    /\ pc' = "detected"
    /\ UNCHANGED <<crds, disk, files, tampers, harnessVars, runVars>>

PathsInHand == {SchemaPath(crds[i]) : i \in DOMAIN crds}

Tampered(p, file) ==
    /\ pc = "files"
    /\ tampers < MaxTamper
    /\ disk[p] # file
    /\ disk' = [disk EXCEPT ![p] = file]
    /\ tampers' = tampers + 1
    /\ ops' = Last2(ops, "tamper")
    /\ UNCHANGED <<pc, crds, changed, files, harnessVars, runVars>>

DeleteFile == \E p \in PathsInHand : Tampered(p, NoFile)

CorruptFile == \E p \in PathsInHand : Tampered(p, Garbage)

LockFile == \E p \in PathsInHand : Tampered(p, Unreadable)

OverwriteFile == \E p \in PathsInHand : \E t \in {ChangedTrue, NullText} : Tampered(p, t)

ReorderFile ==
    \E p \in PathsInHand :
        /\ IsJsonText(disk[p])
        /\ \E t \in {JsonText(disk[p].indent, ReverseKeys(JsonParse(disk[p])))} :
              Tampered(p, t)

EditFile ==
    \E p \in PathsInHand : \E e \in FileEdits :
        /\ IsJsonText(disk[p])
        /\ LeadsThroughObjects(JsonParse(disk[p]), Front(e.path))
        /\ \E t \in {JsonText(disk[p].indent, SetAt(JsonParse(disk[p]), e.path, e.val))} :
              Tampered(p, t)

NextFiles ==
    \/ Save \/ Detect
    \/ DeleteFile \/ CorruptFile \/ LockFile \/ OverwriteFile
    \/ ReorderFile \/ EditFile

SpecFiles == InitFiles /\ [][NextFiles]_vars

-----------------------------------------------------------------------------
(* Spec: one run of runSync, downloadCRDsFromSources or dumpCRDsFromCluster *)
(* on a directory left by earlier runs                                      *)

RunSources ==
    { URLSource(<<"S">>, Undefined, Bool(TRUE)),
      URLSource(<<"Off">>, Undefined, Undefined),
      URLSource(<<"Dis">>, Undefined, Bool(FALSE)),
      ClusterSource(<<"K">>, Undefined, Bool(TRUE)) }

SyncConfig(sources, createPR, dryRun, githubToken) ==
    [sources |-> sources, createPR |-> createPR, dryRun |-> dryRun,
     githubToken |-> githubToken, outputDir |-> "./schemas"]

Configs(command) ==
    IF command = "sync"
    THEN {SyncConfig(ss, pr, dry, token) :
            ss \in SeqsUpTo(RunSources, MaxSources), pr \in BOOLEAN, dry \in BOOLEAN,
            token \in {Undefined, Tok(<<"ghp_token">>)}}
    ELSE IF command = "download"
    THEN {SyncConfig(ss, FALSE, FALSE, Undefined) : ss \in SeqsUpTo(RunSources, MaxSources)}
    ELSE IF command = "publish"
    THEN {SyncConfig(<<>>, pr, dry, token) :
            pr \in BOOLEAN, dry \in BOOLEAN, token \in {Undefined, Tok(<<"ghp_token">>)}}
    ELSE {SyncConfig(<<>>, FALSE, FALSE, Undefined)}

\* The directory as an earlier run over the cluster left it
SyncedDisk ==
    saveSchemas(parseCRDs(<<WidgetCRD>>, ClusterSource(<<"K">>, Undefined, Bool(TRUE))),
                EmptyDisk, 2).disk

PriorDisks == {EmptyDisk, SyncedDisk}

\* const result: SyncResult = {...}
NewResult ==
    [success |-> FALSE, message |-> <<>>, generatedSchemas |-> <<>>,
     changedSchemas |-> <<>>, errors |-> <<>>, prUrl |-> Undefined]

\* The outer catch block without result.message = errorMsg
FailSilently(res, msg) ==
    [res EXCEPT !.success = FALSE, !.errors = Append(@, msg)]

\* The outer catch block of an entry point
Fail(res, msg) ==
    [res EXCEPT !.success = FALSE, !.message = msg, !.errors = Append(@, msg)]

\* A per-source handler that lets the failure end the run
OnSourceFailureAbort == "abort"

\* The per-source catch block: the failure is collected and the loop goes on
OnSourceFailure == "collect"

\* `Failed to fetch from ${source.name}: ${error}`
SourceErrorMsg(source, error) ==
    <<"Failed to fetch from ">> \o source.name \o <<": ">> \o ErrorToString(error)

\* Saving the changed records only
RecordsToSaveChanged(allCRDs, changedCRDs) == changedCRDs

\* The records runSync hands to saveSchemas
RecordsToSave(allCRDs, changedCRDs) == allCRDs

\* A path that keeps the letter case of kind and version
getSchemaPathVerbatim(group, kind, version) ==
    group \o <<"/">> \o generateSchemaFilenameVerbatim(kind, version)

\* getSchemaPath(group, kind, version) of file-operations
getSchemaPath(group, kind, version) == generateSchemaPath(group, kind, version)

EmptyObjectText == JsonText(0, Obj(<<>>))

\* A loop that stages the fallback content for every changed record
PrFilesFallbackOnly(changedCRDs, fs) ==
    [i \in DOMAIN changedCRDs |->
        <<getSchemaPath(changedCRDs[i].group, changedCRDs[i].kind, changedCRDs[i].version),
          EmptyObjectText>>]

\* The prFiles loop of runSync
RECURSIVE PrFiles(_, _)
PrFiles(changedCRDs, fs) ==
    IF changedCRDs = <<>> THEN <<>>
    ELSE LET crd == changedCRDs[Len(changedCRDs)]
             schemaPath == getSchemaPath(crd.group, crd.kind, crd.version)
         IN PutFile(PrFiles(SubSeq(changedCRDs, 1, Len(changedCRDs) - 1), fs), schemaPath,
                    IF FileOf(fs, schemaPath) = Undefined THEN EmptyObjectText
                    ELSE FileOf(fs, schemaPath))

DryRunMsg == <<"Dry run completed. PR would have been created.">>
NoChangesMsg == <<"No changes detected">>
GeneratedMsg == <<"Schemas generated successfully">>
CreatedMsg(prUrl) == <<"Successfully created PR: ">> \o prUrl
DownloadedMsg(n, dir) == <<"Successfully downloaded ", ToString(n), " CRDs to ", dir>>
DumpedMsg(n, dir) == <<"Successfully dumped ", ToString(n), " CRDs to ", dir>>

Init ==
    /\ cmd \in {"sync", "download", "dump", "publish"}
    /\ config \in Configs(cmd)
    /\ disk \in PriorDisks
    /\ pc = CASE cmd = "dump" -> "clusterInfo"
              [] cmd = "publish" -> "scan"
              [] OTHER -> "fetch"
    /\ crds = <<>> /\ changed = <<>> /\ files = <<>>
    /\ world = <<>> /\ idx = 1 /\ written = {} /\ staged = <<>>
    /\ result = NewResult
    /\ ops = <<>> /\ tampers = 0
    /\ HarnessIdle

\* A loop that skips a source only when its flag is false
SkippedWhenFalse(source) == source.enabled = Bool(FALSE)

\* !source.enabled
Skipped(source) == ~Truthy(source.enabled)

InLoop == pc = "fetch" /\ cmd \in {"sync", "download"} /\ idx <= Len(config.sources)

\* if (!source.enabled) continue
SkipSource ==
    /\ InLoop
    /\ Skipped(config.sources[idx])
    /\ idx' = idx + 1
    /\ UNCHANGED <<pc, disk, crds, changed, files, world, result, written, staged,
                   cmd, config, ops, tampers, harnessVars>>

\* The position in the world of the start of a second run (0: there is none)
RerunAt ==
    IF \E k \in DOMAIN world : world[k].step = "rerun"
    THEN CHOOSE k \in DOMAIN world : world[k].step = "rerun"
    ELSE 0

\* What the k-th source may answer: anything in a first run, and in a second
\* run over the same inputs what it answered in the first
OfferedAnswers(k) ==
    IF RerunAt = 0 THEN AnswersFor(config.sources[k])
    ELSE {world[e].answer : e \in {e \in 1..RerunAt :
                                       world[e].step = "fetch" /\ world[e].source = k}}

\* One iteration of the loop over config.sources for an enabled source
FetchSource ==
    /\ InLoop
    /\ ~Skipped(config.sources[idx])
    /\ \E answer \in OfferedAnswers(idx) :
         \E got \in {fetchAndParseCRDs(config.sources[idx], answer)} :
            /\ world' = Append(world, [step |-> "fetch", source |-> idx,
                                       answer |-> answer, threw |-> got.threw])
            /\ IF ~got.threw
               THEN /\ crds' = crds \o got.value
                    /\ idx' = idx + 1
                    /\ UNCHANGED <<pc, result>>
               ELSE IF OnSourceFailure = "collect"
               THEN /\ result' = [result EXCEPT !.errors =
                                     Append(@, SourceErrorMsg(config.sources[idx], got.error))]
                    /\ idx' = idx + 1
                    /\ UNCHANGED <<pc, crds>>
               ELSE /\ result' = Fail(result, got.error)
                    /\ pc' = "done"
                    /\ UNCHANGED <<idx, crds>>
    /\ UNCHANGED <<disk, changed, files, written, staged, cmd, config, ops, tampers,
                   harnessVars>>

\* A run that compares with the directory as saveSchemas leaves it
DirectoryAfterSave(d, allCRDs) == saveSchemas(allCRDs, d, NoFailure(allCRDs)).disk

\* The directory detectChangedSchemas reads: runSync awaits it before saveSchemas
DirectoryAtDetection(d, allCRDs) == d

\* runSync after the loop: generatedSchemas, then detectChangedSchemas
DetectChanges ==
    /\ pc = "fetch" /\ cmd = "sync" /\ idx > Len(config.sources)
    /\ \E r \in {detectChangedSchemas(crds, DirectoryAtDetection(disk, crds))} :
         IF r.threw
         THEN /\ result' = Fail([result EXCEPT !.generatedSchemas = crds], WriteFailedMsg)
              /\ pc' = "done"
              /\ UNCHANGED changed
         ELSE /\ result' = [result EXCEPT !.generatedSchemas = crds,
                                          !.changedSchemas = r.changed]
              /\ changed' = r.changed
              /\ pc' = "save"
    /\ UNCHANGED <<disk, crds, files, world, idx, written, staged, cmd, config, ops,
                   tampers, harnessVars>>

\* downloadCRDsFromSources after the loop: generatedSchemas
CollectSchemas ==
    /\ pc = "fetch" /\ cmd = "download" /\ idx > Len(config.sources)
    /\ result' = [result EXCEPT !.generatedSchemas = crds]
    /\ pc' = "save"
    /\ UNCHANGED <<disk, crds, changed, files, world, idx, written, staged, cmd, config,
                   ops, tampers, harnessVars>>

\* await saveSchemas(...), and the end of download and dump
SaveSchemas ==
    /\ pc = "save"
    /\ \E list \in {IF cmd = "sync" THEN RecordsToSave(crds, changed) ELSE crds} :
       \E failAt \in 0..NoFailure(list) :
       \E r \in {saveSchemas(list, disk, failAt)} :
          /\ disk' = r.disk
          /\ written' = r.written
          /\ world' = Append(world, [step |-> "save", threw |-> r.threw])
          /\ IF r.threw
             THEN /\ result' = Fail(result, WriteFailedMsg)
                  /\ pc' = "done"
                  /\ UNCHANGED files
             ELSE /\ files' = r.files
                  /\ IF cmd = "sync"
                     THEN pc' = "publish" /\ UNCHANGED result
                     ELSE /\ pc' = "done"
                          /\ result' =
                               [result EXCEPT
                                  !.success = TRUE,
                                  !.message =
                                     IF cmd = "download"
                                     THEN DownloadedMsg(Len(crds), config.outputDir)
                                     ELSE DumpedMsg(Len(crds), config.outputDir)]
    /\ UNCHANGED <<crds, changed, idx, staged, cmd, config, ops, tampers, harnessVars>>

\* The repositories and the failing calls a run can meet
RunRemotes == {Remote("absent", "sha-1", AllPaths), Remote("stale", "sha-1", {})}

RunFaults == {0, 3}

\* A run that skips the dry-run test
DryRunIgnored(cfg) == FALSE

\* if (config.dryRun)
DryRunRequested(cfg) == cfg.dryRun

\* The record of one createPRWithFiles call in the world
PublishEvent(remote, failAt, pr) ==
    [step |-> "publish", github |-> IF pr.threw THEN "failed" ELSE "created",
     remote |-> remote, failAt |-> failAt, calls |-> pr.calls]

\* The result of a command after createPRWithFiles answered
AfterPublish(res, pr) ==
    IF pr.threw THEN Fail(res, pr.error)
    ELSE [res EXCEPT !.prUrl = pr.value, !.message = CreatedMsg(pr.value.t),
                     !.success = TRUE]

\* The end of runSync: the pull request
Publish ==
    /\ pc = "publish"
    /\ pc' = "done"
    /\ IF config.createPR /\ Len(changed) > 0
       THEN IF ~Truthy(config.githubToken)
            THEN /\ result' = Fail(result, TokenRequiredMsg)
                 /\ UNCHANGED <<staged, world>>
            ELSE IF DryRunRequested(config)
            THEN /\ result' = [result EXCEPT !.message = DryRunMsg, !.success = TRUE]
                 /\ UNCHANGED <<staged, world>>
            ELSE \E remote \in RunRemotes, failAt \in RunFaults :
                 \E pr \in {createPRWithFiles([files |-> PrFiles(changed, files),
                                               branchName |-> BranchName],
                                              remote, failAt)} :
                    /\ world' = Append(world, PublishEvent(remote, failAt, pr))
                    /\ staged' = PrFiles(changed, files)
                    /\ result' = AfterPublish(result, pr)
       ELSE /\ result' = [result EXCEPT
                            !.message = IF Len(changed) = 0 THEN NoChangesMsg
                                        ELSE GeneratedMsg,
                            !.success = TRUE]
            /\ UNCHANGED <<staged, world>>
    /\ UNCHANGED <<disk, crds, changed, files, idx, written, cmd, config, ops, tampers,
                   harnessVars>>

\* readdirSync over outputDir and its group directories: the paths of the
\* files, in directory order
RECURSIVE DirectoryOrder(_)
DirectoryOrder(paths) ==
    IF paths = {} THEN <<>>
    ELSE LET first == CHOOSE p \in paths : TRUE
         IN <<first>> \o DirectoryOrder(paths \ {first})

SchemaFiles(d) == DirectoryOrder({p \in DOMAIN d : Exists(d[p])})

\* The record publishSchemas rebuilds from a file name and its parsed content
LocalRecord(path, schema) ==
    LET n == Len(path)
        groupDir == SubSeq(path, 1, n - 5)
        kind == <<path[n - 3]>>
    IN [name |-> ToLowerCase(kind) \o <<".">> \o groupDir,
        pluralName |-> ToLowerCase(kind), group |-> groupDir, kind |-> kind,
        version |-> <<path[n - 1]>>, openAPIV3Schema |-> schema, rawYAML |-> <<>>,
        source |-> [type |-> "url", id |-> <<"local">>, name |-> <<"Local Schemas">>,
                    url |-> <<>>, group |-> groupDir]]

\* The loop of publishSchemas over the schema files: Bun.file(..).text() is
\* outside the try block, JSON.parse inside it
RECURSIVE ReadLocal(_, _)
ReadLocal(paths, d) ==
    IF paths = <<>> THEN [threw |-> FALSE, value |-> <<>>]
    ELSE IF d[Head(paths)] = Unreadable THEN [threw |-> TRUE, value |-> <<>>]
    ELSE CHOOSE r \in
           { IF rest.threw THEN rest
             ELSE [threw |-> FALSE,
                   value |-> (IF IsJsonText(d[Head(paths)])
                              THEN <<LocalRecord(Head(paths), JsonParse(d[Head(paths)]))>>
                              ELSE <<>>) \o rest.value] :
             rest \in {ReadLocal(Tail(paths), d)} } : TRUE

\* allCRDs.slice(0, Math.min(10, allCRDs.length))
MaxPublished == 10

FirstToPublish(allCRDs) ==
    SubSeq(allCRDs, 1, IF Len(allCRDs) < MaxPublished THEN Len(allCRDs) ELSE MaxPublished)

\* The prFiles loop of publishSchemas: the files are read back from the directory
RECURSIVE PrFilesFromDisk(_, _)
PrFilesFromDisk(changedCRDs, d) ==
    IF changedCRDs = <<>> THEN <<>>
    ELSE LET crd == changedCRDs[Len(changedCRDs)]
             schemaPath == getSchemaPath(crd.group, crd.kind, crd.version)
             before == PrFilesFromDisk(SubSeq(changedCRDs, 1, Len(changedCRDs) - 1), d)
         IN IF d[schemaPath] \in {NoFile, Unreadable} THEN before
            ELSE PutFile(before, schemaPath, d[schemaPath])

PublishNeedsPRMsg == <<"Publish command requires --create-pr flag to be set">>
NothingToPublishMsg == <<"No schemas to publish">>

\* publishSchemas(config) over the directory d: the result, the records read,
\* the files handed to GitHub and the calls sent to it
publishSchemasBody(cfg, d, remote, failAt) ==
    LET end(res, fs, events) == [result |-> res, staged |-> fs, events |-> events]
        create(res, fs) ==
            LET answered(pr) ==
                    end(AfterPublish(res, pr), fs, <<PublishEvent(remote, failAt, pr)>>)
            IN answered(createPRWithFiles([files |-> fs, branchName |-> BranchName],
                                          remote, failAt))
        publish(res) ==
            IF res.changedSchemas = <<>>
            THEN end([res EXCEPT !.message = NothingToPublishMsg, !.success = TRUE],
                     <<>>, <<>>)
            ELSE IF DryRunRequested(cfg)
            THEN end([res EXCEPT !.message = DryRunMsg, !.success = TRUE], <<>>, <<>>)
            ELSE create(res, PrFilesFromDisk(res.changedSchemas, d))
        read(res) ==
            IF ~cfg.createPR
            THEN end([res EXCEPT !.message = PublishNeedsPRMsg, !.success = TRUE],
                     <<>>, <<>>)
            ELSE IF ~Truthy(cfg.githubToken)
            THEN end(Fail(res, TokenRequiredMsg), <<>>, <<>>)
            ELSE publish([res EXCEPT !.changedSchemas = FirstToPublish(res.generatedSchemas)])
        scan(local) ==
            IF local.threw THEN end(Fail(NewResult, WriteFailedMsg), <<>>, <<>>)
            ELSE read([NewResult EXCEPT !.generatedSchemas = local.value])
    IN scan(ReadLocal(SchemaFiles(d), d))

publishSchemas(cfg, d, remote, failAt) ==
    CHOOSE r \in {publishSchemasBody(c, d, m, failAt) : c \in {cfg}, m \in {remote}} : TRUE

\* The publish command
PublishSchemas ==
    /\ pc = "scan"
    /\ pc' = "done"
    /\ \E remote \in RunRemotes, failAt \in RunFaults :
       \E r \in {publishSchemas(config, disk, remote, failAt)} :
          /\ result' = r.result
          /\ crds' = r.result.generatedSchemas
          /\ changed' = r.result.changedSchemas
          /\ staged' = r.staged
          /\ world' = world \o r.events
    /\ UNCHANGED <<disk, files, idx, written, cmd, config, ops, tampers, harnessVars>>

\* dumpCRDsFromCluster: getClusterInfo and the k8s-cluster source
GetClusterInfo ==
    /\ pc = "clusterInfo"
    /\ \E answer \in ClusterAnswers :
         \E info \in {getClusterInfo(Undefined, answer)} :
            /\ world' = Append(world, [step |-> "clusterInfo", source |-> 1,
                                       answer |-> answer, threw |-> info.threw])
            /\ IF info.threw
               THEN /\ result' = Fail(result, info.error)
                    /\ pc' = "done"
                    /\ UNCHANGED config
               ELSE /\ config' = [config EXCEPT !.sources =
                                     <<ClusterSource(info.value.name, Undefined, Bool(TRUE))>>]
                    /\ pc' = "fetch"
                    /\ UNCHANGED result
    /\ UNCHANGED <<disk, crds, changed, files, idx, written, staged, cmd, ops, tampers,
                   harnessVars>>

\* dumpCRDsFromCluster: fetchAndParseCRDs(k8sSource) against the same kubeconfig
DumpFetch ==
    /\ pc = "fetch" /\ cmd = "dump"
    /\ \E answer \in {a \in ClusterAnswers : a.kubeconfig = world[1].answer.kubeconfig} :
         \E got \in {fetchAndParseCRDs(config.sources[1], answer)} :
            /\ world' = Append(world, [step |-> "fetch", source |-> 1,
                                       answer |-> answer, threw |-> got.threw])
            /\ IF got.threw
               THEN /\ result' = Fail(result, got.error)
                    /\ pc' = "done"
                    /\ UNCHANGED crds
               ELSE /\ crds' = got.value
                    /\ result' = [result EXCEPT !.generatedSchemas = got.value]
                    /\ pc' = "save"
    /\ UNCHANGED <<disk, changed, files, idx, written, staged, cmd, config, ops, tampers,
                   harnessVars>>

Next ==
    \/ SkipSource \/ FetchSource \/ DetectChanges \/ CollectSchemas
    \/ SaveSchemas \/ Publish \/ GetClusterInfo \/ DumpFetch \/ PublishSchemas

Spec == Init /\ [][Next]_vars

(* SpecRerun: runSync with PR creation requested, and then once more over the
   same configuration, answers and output directory *)

InitRerun ==
    /\ Init
    /\ cmd = "sync"
    /\ config.createPR

\* The command is started again when the first run has ended
RunAgain ==
    /\ cmd = "sync" /\ pc = "done"
    /\ RerunAt = 0
    /\ world' = Append(world, [step |-> "rerun", result |-> result, crds |-> crds])
    /\ pc' = "fetch"
    /\ idx' = 1
    /\ crds' = <<>> /\ changed' = <<>> /\ files' = <<>>
    /\ written' = {} /\ staged' = <<>>
    /\ result' = NewResult
    /\ UNCHANGED <<disk, cmd, config, ops, tampers, harnessVars>>

NextRerun ==
    \/ SkipSource \/ FetchSource \/ DetectChanges \/ SaveSchemas \/ Publish
    \/ RunAgain

SpecRerun == InitRerun /\ [][NextRerun]_vars

-----------------------------------------------------------------------------
(* Claims about the schema converter (SpecConvert) *)

DeclaresProperties(n) ==
    Truthy(Get(n, "properties")) /\ TypeofObject(Get(n, "properties"))

\* The nodes directly below a schema node, each with its converted counterpart
SchemaChildren(in, out) ==
    LET props == Get(in, "properties")
        listed(k) ==
            IF IsArr(Get(in, k))
            THEN {<<Get(in, k).a[i],
                    IF IsArr(Get(out, k)) /\ i \in DOMAIN Get(out, k).a
                    THEN Get(out, k).a[i] ELSE Undefined>> :
                  i \in DOMAIN Get(in, k).a}
            ELSE {}
        single(k) ==
            IF TypeofObject(Get(in, k)) /\ ~IsNull(Get(in, k))
            THEN {<<Get(in, k), Get(out, k)>>} ELSE {}
    IN (IF DeclaresProperties(in)
        THEN {<<Entries(props)[i][2],
                Get(Get(out, "properties"), Entries(props)[i][1])>> :
              i \in DOMAIN Entries(props)}
        ELSE {})
       \cup single("items") \cup single("additionalProperties") \cup single("not")
       \cup listed("allOf") \cup listed("anyOf") \cup listed("oneOf")

\* Every node below `in` that declares properties and no additionalProperties
\* is converted to a node with additionalProperties: false
RECURSIVE ClosedBelow(_, _)
ClosedBelow(in, out) ==
    \A pair \in SchemaChildren(in, out) :
        /\ (DeclaresProperties(pair[1]) /\ ~HasKey(pair[1], "additionalProperties"))
              => Get(pair[2], "additionalProperties") = Bool(FALSE)
        /\ ClosedBelow(pair[1], pair[2])

\* C1: every non-root node that declares properties and no additionalProperties
\* is converted with additionalProperties: false, and a root of that shape is
\* converted without an additionalProperties key.
C1_NestedClosedRootOpen ==
    pc = "converted" =>
        /\ ClosedBelow(input, output)
        /\ (DeclaresProperties(input) /\ ~HasKey(input, "additionalProperties"))
              => ~HasKey(output, "additionalProperties")

-----------------------------------------------------------------------------
(* Claims about the keywords of a node (SpecKeywords): C11 - C14 *)

\* Every node of the input, the root included, with its converted counterpart
RECURSIVE NodePairs(_, _)
NodePairs(in, out) ==
    {<<in, out>>} \cup UNION {NodePairs(p[1], p[2]) : p \in SchemaChildren(in, out)}

Converted == pc = "converted"

\* C11 as stated: every vendor extension a node carries is in the converted
\* node with the same value.
C11_VendorExtensionsKept ==
    Converted =>
        \A p \in NodePairs(input, output) : \A k \in Range(VendorExtensions) :
            (IsObj(p[1]) /\ HasKey(p[1], k))
               => HasKey(p[2], k) /\ Get(p[2], k) = Get(p[1], k)

\* C11 amended: of the vendor extensions, only
\* x-kubernetes-preserve-unknown-fields is carried over, with the same value
\* and only when that value is truthy; every other vendor extension,
\* x-kubernetes-validations included, is absent from the converted node.
C11_OnlyPreserveUnknownFieldsKept ==
    Converted =>
        \A p \in NodePairs(input, output) : \A k \in Range(VendorExtensions) :
            IsObj(p[1]) =>
               IF k = "x-kubernetes-preserve-unknown-fields" /\ Truthy(Get(p[1], k))
               THEN HasKey(p[2], k) /\ Get(p[2], k) = Get(p[1], k)
               ELSE ~HasKey(p[2], k)

\* A converted node that kept the preserve flag and lost two other extensions
C11_Witness ==
    /\ Converted
    /\ \E p \in NodePairs(input, output) :
          /\ p[1] = VendorNode
          /\ Get(p[2], "x-kubernetes-preserve-unknown-fields") = Bool(TRUE)
          /\ ~HasKey(p[2], "x-kubernetes-validations")
          /\ ~HasKey(p[2], "x-kubernetes-embedded-resource")

\* C12: each of type, description, enum, default, pattern, $ref, example and
\* examples that a node carries is in the converted node with the same value.
C12_ScalarKeywordsKept ==
    Converted =>
        \A p \in NodePairs(input, output) : \A k \in ScalarKeywords :
            (IsObj(p[1]) /\ HasKey(p[1], k))
               => HasKey(p[2], k) /\ Get(p[2], k) = Get(p[1], k)

\* C13: an additionalProperties that is a boolean is in the converted node as
\* that boolean, and one that is an object is there as its conversion.
C13_ExplicitAdditionalProperties ==
    Converted =>
        \A p \in NodePairs(input, output) :
            LET addl == Get(p[1], "additionalProperties")
            IN IsObj(p[1]) =>
                  /\ IsBool(addl) => Get(p[2], "additionalProperties") = addl
                  /\ IsObj(addl) =>
                        /\ IsObj(Get(p[2], "additionalProperties"))
                        /\ Get(p[2], "additionalProperties") = convertSchema(addl)

\* A node with properties and additionalProperties: true, converted
C13_Witness ==
    /\ Converted
    /\ \E p \in NodePairs(input, output) :
          /\ DeclaresProperties(p[1])
          /\ Get(p[1], "additionalProperties") = Bool(TRUE)
          /\ Get(p[2], "additionalProperties") = Bool(TRUE)
          /\ IsObj(Get(p[2], "properties"))

\* null, a string, a number or a boolean
NonObject(v) == IsNull(v) \/ IsStr(v) \/ IsNum(v) \/ IsBool(v)

\* C14 as stated: conversion returns a result, and a node that is null, a
\* string, a number or a boolean (the root, a property value, a member of
\* allOf, anyOf or oneOf, items, not) is replaced by the placeholder.
C14_NonObjectsReplaced ==
    Converted =>
        /\ IsObj(output)
        /\ NonObject(input) => Get(output, "type") = Get(Placeholder, "type")
        /\ \A p \in NodePairs(input, output) :
              IsObj(p[1]) =>
                 /\ \A c \in SchemaChildren(p[1], p[2]) :
                       NonObject(c[1]) => c[2] = Placeholder
                 /\ \A k \in {"items", "not"} :
                       NonObject(Get(p[1], k)) => Get(p[2], k) = Placeholder

\* C14 amended: conversion returns a result; a root, a property value or a
\* member of allOf, anyOf or oneOf that is null, a string, a number or a
\* boolean is replaced by the placeholder; items or not of that kind is
\* replaced by the placeholder when truthy and left out when it is null,
\* false, 0 or the empty string.
C14_NonObjectsReplacedOrDropped ==
    Converted =>
        /\ IsObj(output)
        /\ NonObject(input) =>
              output = Obj(<< <<"$schema", SchemaDialect>>, <<"type", Str("unknown")>> >>)
        /\ \A p \in NodePairs(input, output) :
              IsObj(p[1]) =>
                 /\ \A c \in SchemaChildren(p[1], p[2]) :
                       NonObject(c[1]) => c[2] = Obj(<< <<"type", Str("unknown")>> >>)
                 /\ \A k \in {"items", "not"} :
                       NonObject(Get(p[1], k)) =>
                          IF Truthy(Get(p[1], k))
                          THEN Get(p[2], k) = Obj(<< <<"type", Str("unknown")>> >>)
                          ELSE ~HasKey(p[2], k)

\* A null items was left out and a null property value was replaced
C14_Witness ==
    /\ Converted
    /\ \E p \in NodePairs(input, output) :
          /\ HasKey(p[1], "items") /\ Get(p[1], "items") = Null
          /\ IsObj(p[2]) /\ ~HasKey(p[2], "items")

-----------------------------------------------------------------------------
(* Claims about change detection and saving (SpecFiles) *)

\* Equality of JSON values, whatever the order of the keys of their objects
RECURSIVE DeepEqual(_, _)
DeepEqual(x, y) ==
    CASE IsObj(x) /\ IsObj(y) ->
           /\ Range(KeysOf(x)) = Range(KeysOf(y))
           /\ \A k \in Range(KeysOf(x)) : DeepEqual(Get(x, k), Get(y, k))
      [] IsArr(x) /\ IsArr(y) ->
           /\ Len(x.a) = Len(y.a)
           /\ \A i \in DOMAIN x.a : DeepEqual(x.a[i], y.a[i])
      [] OTHER -> x = y

\* The JSON value of the freshly converted schema of a record
FreshJson(crd) == JsonParse(SavedContent(crd))

FileOfRecord(i) == disk[SchemaPath(crds[i])]

Reported(i) == crds[i] \in Range(changed)

Detected == pc = "detected" /\ LastOp = "detect"

\* C2: a record is reported as changed whenever the JSON in its file differs
\* from its freshly converted schema in a value or a key set, at any depth.
C2_AnyDifferenceReported ==
    Detected =>
        \A i \in DOMAIN crds :
            (IsJsonText(FileOfRecord(i))
             /\ ~DeepEqual(JsonParse(FileOfRecord(i)), FreshJson(crds[i])))
                => Reported(i)

\* C3: detectChangedSchemas([r], dir) right after saveSchemas([r], dir)
\* completed returns the empty list.
C3_SaveThenDetectEmpty ==
    (pc = "detected" /\ ops = <<"save", "detect">> /\ Len(crds) = 1)
        => changed = <<>>

\* C4: a file holding the JSON value of the freshly converted schema with the
\* keys of its objects in another order is not reported as changed.
C4_KeyOrderIgnored ==
    Detected =>
        \A i \in DOMAIN crds :
            (IsJsonText(FileOfRecord(i))
             /\ DeepEqual(JsonParse(FileOfRecord(i)), FreshJson(crds[i]))
             /\ JsonParse(FileOfRecord(i)) # FreshJson(crds[i]))
                => ~Reported(i)

AbsentOrCorrupt(file) == file = NoFile \/ file = Unreadable \/ file = Garbage

\* C5: a record whose file is missing, unreadable or not JSON is reported as
\* changed, and detection neither throws nor stops at such a record.
C5_AbsentOrCorruptReported ==
    pc = "detected" =>
        /\ LastOp = "detect"
        /\ \A i \in DOMAIN crds : AbsentOrCorrupt(FileOfRecord(i)) => Reported(i)

\* A corrupt file followed by a missing one, both reported
C5_Witness ==
    /\ Detected
    /\ Len(crds) >= 2
    /\ FileOfRecord(1) \in {Unreadable, Garbage}
    /\ FileOfRecord(2) = NoFile
    /\ Reported(1) /\ Reported(2)

-----------------------------------------------------------------------------
(* Claims about parseCRDs (SpecParse) *)

\* The CRD at position i of the input is excluded by the source's group filter
Filtered(i) ==
    /\ input.source.type = "url"
    /\ input.source.group \notin {Undefined, Tok(<<>>)}
    /\ input.source.group # Tok(input.crds[i].spec.group)

VersionsOf(i) == input.crds[i].spec.versions

CarriesSchema(i, j) == VersionsOf(i)[j].schema # Undefined

\* The (CRD, version) positions that are to yield a record
Emitted ==
    {<<i, j>> \in (1..MaxCRDs + 1) \X (1..MaxVersions + 1) :
        /\ i \in DOMAIN input.crds
        /\ j \in DOMAIN VersionsOf(i)
        /\ ~Filtered(i)
        /\ CarriesSchema(i, j)}

\* The position in the output of the record of p: input order
RankOf(p) ==
    1 + Cardinality({q \in Emitted : q[1] < p[1] \/ (q[1] = p[1] /\ q[2] < p[2])})

\* C8: parseCRDs yields exactly one record per (CRD, version) pair whose
\* version carries a schema and whose CRD passes the filter, with the version's
\* name, in the order of the CRDs and of their version entries.
C8_OneRecordPerVersionWithSchema ==
    pc = "parsed" =>
        /\ Len(output) = Cardinality(Emitted)
        /\ \A p \in Emitted :
             /\ output[RankOf(p)].version = VersionsOf(p[1])[p[2]].name
             /\ output[RankOf(p)].name = input.crds[p[1]].metadata.name
             /\ output[RankOf(p)].openAPIV3Schema = VersionsOf(p[1])[p[2]].schema

\* A CRD with two versions of which one carries a schema, after another CRD
C8_Witness ==
    /\ pc = "parsed"
    /\ Len(input.crds) = 2
    /\ Len(VersionsOf(2)) = 2
    /\ Cardinality({j \in 1..2 : CarriesSchema(2, j)}) = 1
    /\ Cardinality(Emitted) >= 2
    /\ Len(output) = Cardinality(Emitted)

HasRecordOf(i, j) ==
    \E k \in DOMAIN output :
        /\ output[k].name = input.crds[i].metadata.name
        /\ output[k].version = VersionsOf(i)[j].name

\* C9: a CRD is skipped with all its versions exactly when the source is a URL
\* source with a non-empty group filter that differs from the CRD's group.
C9_GroupFilter ==
    pc = "parsed" =>
        \A i \in DOMAIN input.crds :
            /\ Filtered(i) =>
                 \A k \in DOMAIN output : output[k].group # input.crds[i].spec.group
            /\ ~Filtered(i) =>
                 \A j \in DOMAIN VersionsOf(i) : CarriesSchema(i, j) => HasRecordOf(i, j)

\* A URL source filtering on one group drops the CRD of the other group and
\* keeps the CRD of its own
C9_Witness ==
    /\ pc = "parsed"
    /\ input.source = URLSource(<<"S">>, Tok(GroupA), Bool(TRUE))
    /\ \E i \in DOMAIN input.crds : input.crds[i].spec.group = GroupB
    /\ output # <<>>
    /\ \A k \in DOMAIN output : output[k].group = GroupA

-----------------------------------------------------------------------------
(* Runs: C6, C7, C10 *)

\* The events of the run's history that are fetches
FetchEvents == SelectSeq(world, LAMBDA e : e.step = "fetch")

SaveThrew == \E k \in DOMAIN world : world[k].step = "save" /\ world[k].threw

SaveDone == \E k \in DOMAIN world : world[k].step = "save" /\ ~world[k].threw

\* The fetch of the source cannot succeed under this answer
AnswerFails(source, answer) ==
    IF source.type = "url" THEN ~answer.ok
    ELSE answer.kubeconfig = "missing" \/ ~answer.ok \/ ~answer.hasItems

\* The positions of the enabled sources, in the order of the list
RECURSIVE EnabledFrom(_)
EnabledFrom(i) ==
    IF i > Len(config.sources) THEN <<>>
    ELSE (IF config.sources[i].enabled = Bool(TRUE) THEN <<i>> ELSE <<>>)
         \o EnabledFrom(i + 1)

\* The records of the fetches from the k-th on that succeeded, in order
RECURSIVE RecordsFrom(_)
RecordsFrom(k) ==
    IF k > Len(FetchEvents) THEN <<>>
    ELSE LET e == FetchEvents[k]
             source == config.sources[e.source]
         IN (IF AnswerFails(source, e.answer) THEN <<>>
             ELSE fetchAndParseCRDs(source, e.answer).value) \o RecordsFrom(k + 1)

FailedFetches == SelectSeq(FetchEvents, LAMBDA e : AnswerFails(config.sources[e.source], e.answer))

StartsWith(str, prefix) ==
    Len(str) >= Len(prefix) /\ SubSeq(str, 1, Len(prefix)) = prefix

Carries(str, part) ==
    \E i \in 1..(Len(str) - Len(part) + 1) : SubSeq(str, i, i + Len(part) - 1) = part

LoopOver == cmd \in {"sync", "download"} /\ pc \in {"save", "publish", "done"}

\* C6: in runSync and downloadCRDsFromSources, once the loop over the sources
\* is over, every enabled source has been fetched exactly once and in list
\* order whatever happened to the sources before it, each failed fetch has
\* left exactly one string in the error list, naming its source, and
\* generatedSchemas is the concatenation, in source order, of the records of
\* the sources whose fetch succeeded.
C6_FailureIsolation ==
    LoopOver =>
        /\ [k \in DOMAIN FetchEvents |-> FetchEvents[k].source] = EnabledFrom(1)
        /\ \A k \in DOMAIN FetchEvents :
              FetchEvents[k].threw
                 <=> AnswerFails(config.sources[FetchEvents[k].source], FetchEvents[k].answer)
        /\ result.generatedSchemas = RecordsFrom(1)
        /\ Len(result.errors) =
              Len(FailedFetches) + (IF pc = "done" /\ ~result.success THEN 1 ELSE 0)
        /\ \A k \in DOMAIN FailedFetches :
              StartsWith(result.errors[k],
                         <<"Failed to fetch from ">>
                            \o config.sources[FailedFetches[k].source].name)

\* A run in which a source failed and a later one delivered records
C6_Witness ==
    /\ LoopOver
    /\ \E j, k \in DOMAIN FetchEvents :
          /\ j < k
          /\ FetchEvents[j].threw
          /\ ~FetchEvents[k].threw
    /\ result.generatedSchemas # <<>>
    /\ Len(result.errors) = 1

\* The event is a cluster fetch that met a missing kubeconfig or a response
\* without an items array
ClusterFatal(e) ==
    /\ \/ e.step = "clusterInfo"
       \/ e.step = "fetch" /\ config.sources[e.source].type = "k8s-cluster"
    /\ \/ e.answer.kubeconfig = "missing"
       \/ e.step = "fetch" /\ e.answer.ok /\ ~e.answer.hasItems

ClusterError(e) ==
    IF e.answer.kubeconfig = "missing" THEN NoKubeconfigMsg ELSE InvalidResponseMsg

PublishThrew ==
    /\ cmd = "sync" /\ config.createPR /\ Len(changed) > 0
    /\ \/ config.githubToken = Undefined
       \/ \E k \in DOMAIN world : world[k].step = "publish" /\ world[k].github = "failed"

\* C7 as stated: at the end of a run of any entry point, a missing kubeconfig,
\* a cluster response without an items array or a failed write has made the
\* result unsuccessful, and the message carries the error.
C7_FatalInEveryEntryPoint ==
    pc = "done" =>
        /\ \A k \in DOMAIN world :
              ClusterFatal(world[k]) =>
                 ~result.success /\ Carries(result.message, ClusterError(world[k]))
        /\ SaveThrew => ~result.success /\ result.message = WriteFailedMsg

\* C7 amended: at the end of a run, a failed write has made the result
\* unsuccessful with the error as its message and last error, in every entry
\* point; a missing kubeconfig or a response without an items array does so in
\* dumpCRDsFromCluster only. In runSync and downloadCRDsFromSources it leaves
\* one string carrying the error in the error list, and the result is
\* unsuccessful only when the write or the publication failed.
C7_FatalWhereUncaught ==
    pc = "done" =>
        /\ SaveThrew =>
              /\ ~result.success
              /\ result.message = WriteFailedMsg
              /\ result.errors[Len(result.errors)] = WriteFailedMsg
        /\ cmd = "dump" =>
              \A k \in DOMAIN world :
                 ClusterFatal(world[k]) =>
                    /\ ~result.success
                    /\ Carries(result.message, ClusterError(world[k]))
                    /\ result.errors = <<result.message>>
        /\ cmd \in {"sync", "download"} =>
              /\ \A k \in DOMAIN world :
                    ClusterFatal(world[k]) =>
                       \E n \in DOMAIN result.errors :
                          /\ Carries(result.errors[n], ClusterError(world[k]))
                          /\ StartsWith(result.errors[n],
                                        <<"Failed to fetch from ">>
                                           \o config.sources[world[k].source].name)
              /\ result.success <=> ~(SaveThrew \/ PublishThrew)

\* A runSync that met a missing kubeconfig and still ended successfully
C7_Witness ==
    /\ pc = "done" /\ cmd = "sync"
    /\ \E k \in DOMAIN world :
          ClusterFatal(world[k]) /\ world[k].answer.kubeconfig = "missing"
    /\ result.success
    /\ Len(result.errors) = 1

PathsOf(list) == {SchemaPath(list[i]) : i \in DOMAIN list}

\* C10 as stated: in a sync run only the files of the records reported as
\* changed are written.
C10_OnlyChangedWritten ==
    cmd = "sync" /\ pc \in {"publish", "done"} => written \subseteq PathsOf(changed)

\* C10 amended: in a sync run whose save step completed, the file of every
\* generated record has been written, reported as changed or not, and holds
\* the text of the last record with that path; only the files staged for the
\* pull request are restricted to the changed records.
C10_AllGeneratedWritten ==
    cmd = "sync" /\ pc \in {"publish", "done"} =>
        /\ written \subseteq PathsOf(result.generatedSchemas)
        /\ SaveDone =>
              /\ written = PathsOf(result.generatedSchemas)
              /\ \A i \in DOMAIN crds :
                    (\A j \in DOMAIN crds : j > i => SchemaPath(crds[j]) # SchemaPath(crds[i]))
                       => disk[SchemaPath(crds[i])] = SavedContent(crds[i])
        /\ staged # <<>> =>
              {staged[i][1] : i \in DOMAIN staged} = PathsOf(changed)

\* A sync run that wrote the file of a record reported as unchanged
C10_Witness ==
    /\ cmd = "sync" /\ pc = "done" /\ SaveDone
    /\ changed # <<>>
    /\ \E i \in DOMAIN crds :
          /\ crds[i] \notin Range(changed)
          /\ SchemaPath(crds[i]) \in written

-----------------------------------------------------------------------------
(* Claims about credential resolution, checked in SpecAuth *)

Resolved == pc = "resolved"

\* The kubeconfig of the call under examination
InputKubeconfig ==
    IF "answer" \in DOMAIN input THEN input.answer.content ELSE input.kubeconfig

\* The entries of a list that carry a name
EntriesNamed(list, name) == {i \in DOMAIN list : list[i].name = name}

\* The context name the claim expects to be selected
ExpectedContextName ==
    IF input.contextName \notin {Undefined, Str("")}
    THEN input.contextName
    ELSE InputKubeconfig.currentContext

ExpectedContexts == EntriesNamed(InputKubeconfig.contexts, ExpectedContextName)

ExpectedContext == InputKubeconfig.contexts[CHOOSE i \in ExpectedContexts : TRUE]

ExpectedClusters ==
    EntriesNamed(InputKubeconfig.clusters, ExpectedContext.context.cluster)

ExpectedCluster == InputKubeconfig.clusters[CHOOSE i \in ExpectedClusters : TRUE]

ExpectedUsers == EntriesNamed(InputKubeconfig.users, ExpectedContext.context.user)

ExpectedUser == InputKubeconfig.users[CHOOSE i \in ExpectedUsers : TRUE]

\* C15: the context is the one named by the call when a name is given and
\* the kubeconfig's current-context otherwise; an absent context fails with
\* the context-not-found error, a cluster reference without an entry with
\* the cluster-not-found error, and a successful resolution returns the
\* server URL of the referenced cluster entry.
C15_ContextSelection ==
    Resolved /\ ExpectedContextName \notin {Undefined, Str("")} =>
        IF ExpectedContexts = {}
        THEN output.threw /\ output.error = ContextNotFoundMsg(ExpectedContextName)
        ELSE IF ExpectedClusters = {}
        THEN output.threw
             /\ output.error = ClusterNotFoundMsg(ExpectedContext.context.cluster)
        ELSE ~output.threw => output.value.serverUrl = ExpectedCluster.cluster.server

\* A name is given that differs from current-context and the server URL is
\* that of the named context's cluster
C15_Witness ==
    /\ Resolved /\ ~output.threw
    /\ input.contextName = Str("prod") /\ input.kubeconfig.currentContext = Str("dev")
    /\ output.value.serverUrl = ProdServer

\* The context, its cluster and the cluster's server URL are all found
ClusterResolved ==
    /\ ExpectedContextName \notin {Undefined, Str("")}
    /\ ExpectedContexts # {}
    /\ ExpectedClusters # {}
    /\ Truthy(ExpectedCluster.cluster.server)

TempsFor(item) == {i \in DOMAIN output.temps : output.temps[i].path[2] = item}

\* The policy of C17 for one item of an entry
PathBeforeData(path, data, value, item) ==
    /\ Truthy(path) /\ Truthy(data) =>
          /\ value = Tok(expandUser(path.t, input.env.home))
          /\ TempsFor(item) = {}
    /\ TempsFor(item) # {} => ~Truthy(path) /\ Truthy(data)

\* C17: for the CA, the client certificate and the client key, an entry with
\* both a path and embedded data yields the path and no temporary file; a
\* temporary file is written only when the path is absent and the data is
\* present.
C17_PathBeforeData ==
    Resolved /\ ClusterResolved /\ ~output.threw =>
        /\ PathBeforeData(ExpectedCluster.cluster.ca, ExpectedCluster.cluster.caData,
                          output.value.caPath, "ca")
        /\ IF ExpectedUsers = {}
           THEN TempsFor("cert") = {} /\ TempsFor("key") = {}
           ELSE /\ PathBeforeData(ExpectedUser.user.cert, ExpectedUser.user.certData,
                                  output.value.cert, "cert")
                /\ PathBeforeData(ExpectedUser.user.key, ExpectedUser.user.keyData,
                                  output.value.key, "key")

\* A cluster entry with a CA path and CA data and a user entry with a
\* certificate path and data but only key data: one temporary file, the key's
C17_Witness ==
    /\ Resolved /\ ClusterResolved /\ ~output.threw /\ ExpectedUsers # {}
    /\ Truthy(ExpectedCluster.cluster.ca) /\ Truthy(ExpectedCluster.cluster.caData)
    /\ Truthy(ExpectedUser.user.cert) /\ Truthy(ExpectedUser.user.certData)
    /\ ~Truthy(ExpectedUser.user.key) /\ Truthy(ExpectedUser.user.keyData)
    /\ output.value.caPath = Tok(<<"/home/u", "/ca.crt">>)
    /\ Len(output.temps) = 1 /\ TempsFor("key") = {1}
    /\ output.temps[1].content = "KEY"

\* The plugin of the environment starts and prints JSON with a status token
PluginGivesToken ==
    /\ input.env.plugin.starts
    /\ IsJsonText(input.env.plugin.output)
    /\ Truthy(Get(Get(JsonParse(input.env.plugin.output), "status"), "token"))

\* C18: the plugin is spawned only when the user entry declares one and has
\* no static token; a plugin that does not start, prints no JSON or prints
\* JSON without a status token leaves a profile without token; with a static
\* token the plugin is not spawned and the static token is returned.
C18_ExecPluginIsSoft ==
    Resolved /\ ClusterResolved /\ ExpectedUsers # {} =>
        /\ ~output.threw
        /\ output.spawned # <<>> =>
              Truthy(ExpectedUser.user.exec) /\ ~Truthy(ExpectedUser.user.token)
        /\ output.spawned # <<>> /\ ~PluginGivesToken => output.value.token = Undefined
        /\ Truthy(ExpectedUser.user.token) =>
              /\ output.spawned = <<>>
              /\ output.value.token = ExpectedUser.user.token

\* The plugin is spawned, prints something that is not JSON, and a profile
\* without token is returned
C18_Witness ==
    /\ Resolved /\ ClusterResolved /\ ExpectedUsers # {}
    /\ output.spawned = <<Str("auth-plugin")>>
    /\ input.env.plugin = PluginPrints(Garbage)
    /\ ~output.threw /\ output.value.token = Undefined

-----------------------------------------------------------------------------
(* Claims about the cluster request and its response, checked in SpecCluster *)

Fetched == pc = "fetched"

RequestSent == Fetched /\ output.request # Undefined

\* C19: when the profile has skip-TLS-verify set, the request disables
\* certificate verification and carries no CA, whatever CA the kubeconfig or
\* the caPath override names; a CA is attached only when skip-TLS-verify is
\* not set and a CA path is present.
C19_SkipVerifyIgnoresCa ==
    RequestSent =>
        /\ Truthy(ExpectedCluster.cluster.insecure) =>
              output.request.tls = [rejectUnauthorized |-> FALSE]
        /\ "ca" \in DOMAIN output.request.tls =>
              /\ ~Truthy(ExpectedCluster.cluster.insecure)
              /\ \/ Truthy(input.caPath)
                 \/ Truthy(ExpectedCluster.cluster.ca)
                 \/ Truthy(ExpectedCluster.cluster.caData)

\* skip-TLS-verify is set, the kubeconfig names a CA and the call overrides
\* it with a readable one, and the request goes out without CA
C19_Witness ==
    /\ RequestSent /\ ~output.threw
    /\ ExpectedCluster.cluster.insecure = Bool(TRUE)
    /\ Truthy(ExpectedCluster.cluster.ca)
    /\ Truthy(input.caPath) /\ input.answer.caReadable
    /\ output.request.tls = [rejectUnauthorized |-> FALSE]

\* C20: the fetch returns the complete items list or fails: a non-2xx status
\* fails it, a 2xx response whose decoded body has no items array fails it
\* with the invalid-response error, and otherwise all items are returned in
\* response order.
C20_CompleteListOrError ==
    RequestSent /\ input.answer.reachable =>
        IF ~input.answer.ok \/ ~IsJsonText(input.answer.body)
        THEN output.threw
        ELSE IF ~IsArr(Get(JsonParse(input.answer.body), "items"))
        THEN /\ output.threw
             /\ output.error = <<"Failed to fetch CRDs from cluster: ">> \o InvalidResponseMsg
        ELSE /\ ~output.threw
             /\ output.value = Get(JsonParse(input.answer.body), "items").a

-----------------------------------------------------------------------------
(* Claims about the URL fetch, checked in SpecURL *)

UrlFetched == pc = "fetched" /\ "body" \in DOMAIN input.answer

\* The lines of the body that are exactly ---, with a sentinel at each end
Separators ==
    {0, Len(input.answer.body) + 1}
    \cup {i \in DOMAIN input.answer.body : input.answer.body[i] = SeparatorLine}

\* The lines of the document that starts after separator i: the non-blank
\* lines up to the next separator
DocumentAfter(i) ==
    LET next == CHOOSE j \in Separators : j > i /\ \A k \in Separators : k > i => j <= k
        within(l) == l # BlankLine
    IN SelectSeq(SubSeq(input.answer.body, i + 1, next - 1), within)

\* The document after separator i is one well-formed CRD
IsCRDDocument(i) ==
    /\ i <= Len(input.answer.body)
    /\ Len(DocumentAfter(i)) = 1
    /\ DocumentAfter(i)[1] \in {DocLine(WidgetCRD), DocLine(GadgetCRD)}

\* The separators that start a CRD document, in body order
CRDStarts == {i \in Separators : IsCRDDocument(i)}

\* C21: a non-2xx status fails the fetch; otherwise the result is, in
\* document order, exactly the documents between --- lines that parse and
\* are of kind CustomResourceDefinition, a document that does not parse
\* being skipped without effect on the documents after it.
C21_KeepsParsedCRDsInOrder ==
    UrlFetched =>
        IF ~input.answer.ok THEN output.threw
        ELSE /\ ~output.threw
             /\ Len(output.value) = Cardinality(CRDStarts)
             /\ \A i \in CRDStarts :
                   output.value[Cardinality({j \in CRDStarts : j <= i})]
                      = DocumentAfter(i)[1].value

\* A body whose first document does not parse and whose second is a CRD,
\* which is returned
C21_Witness ==
    /\ UrlFetched /\ ~output.threw
    /\ input.answer.body = <<BrokenLine, SeparatorLine, DocLine(GadgetCRD),
                             SeparatorLine>>
    /\ output.value = <<GadgetCRD>>

-----------------------------------------------------------------------------
(* Claims about saveSchemas, checked in SpecFiles *)

Saved == pc = "files" /\ LastOp = "save"

\* {group}/{lowercase(kind)}_{lowercase(version)}.json
CanonicalPath(crd) ==
    crd.group \o <<"/">> \o ToLowerCase(crd.kind) \o <<"_">> \o ToLowerCase(crd.version)
    \o <<".json">>

\* C22: when saveSchemas has completed, the file at the canonical path of
\* every given record exists, and the file at every key of the returned map
\* holds exactly the map's value for that key.
C22_FilesMatchReturnedMap ==
    Saved =>
        /\ \A i \in DOMAIN crds :
              /\ CanonicalPath(crds[i]) \in DOMAIN disk
              /\ Exists(disk[CanonicalPath(crds[i])])
        /\ \A k \in DOMAIN files :
              /\ files[k][1] \in DOMAIN disk
              /\ disk[files[k][1]] = files[k][2]

\* Two records with different paths have been saved and the map has both
C22_Witness ==
    /\ Saved
    /\ Len(crds) = 2 /\ Len(files) = 2
    /\ crds[1].kind = <<"Gadget">> /\ crds[1].version = <<"V1">>
    /\ IsJsonText(disk[GroupB \o <<"/", "gadget", "_", "v1", ".json">>])

-----------------------------------------------------------------------------
(* Claims about createPRWithFiles, checked in SpecGitHub *)

Published == pc = "published"

\* The positions of the calls of one API method
CallsTo(method) == {i \in DOMAIN output.calls : output.calls[i].call = method}

FileCalls == CallsTo("repos.getContent") \cup CallsTo("repos.createOrUpdateFileContents")

\* C27: an existing head branch is deleted before the branch is created, the
\* branch is created at the tip of the base branch, the files are committed
\* after that in the order of the map, and the pull request is opened only
\* after every file has been committed; when a step fails no pull request is
\* opened.
C27_FixedOrder ==
    Published =>
        /\ \A d \in CallsTo("git.deleteRef"), c \in CallsTo("git.createRef") : d < c
        /\ \A c \in CallsTo("git.createRef"), f \in FileCalls : c < f
        /\ \A f \in FileCalls, o \in CallsTo("pulls.create") : f < o
        /\ output.head = "fresh" =>
              /\ input.remote.head = "stale" => CallsTo("git.deleteRef") # {}
              /\ \A c \in CallsTo("git.createRef") :
                    output.calls[c].sha = input.remote.baseSha
        /\ Len(output.committed) <= Len(input.options.files)
        /\ output.committed = SubSeq(input.options.files, 1, Len(output.committed))
        /\ CallsTo("pulls.create") # {} => output.committed = input.options.files
        /\ output.opened <=> ~output.threw
        /\ output.opened => CallsTo("pulls.create") = {Len(output.calls)}

\* The head branch is there, both files are on the base branch, and the nine
\* calls end with the pull request
C27_Witness ==
    /\ Published /\ output.opened
    /\ input.remote.head = "stale"
    /\ Len(input.options.files) = 2
    /\ Len(output.calls) = 9
    /\ output.calls[2].call = "git.deleteRef"

-----------------------------------------------------------------------------
(* Claims about dry runs (Spec) *)

GitHubEvents == {k \in DOMAIN world : world[k].step = "publish"}

\* C23: in a run of runSync or publishSchemas with the dry-run flag set,
\* whatever the create-PR flag, the token and the changes are, no call is sent
\* to GitHub (no branch created or deleted, no file committed, no pull request
\* opened), no file is handed over and the result carries no PR URL
C23_DryRunNeverPublishes ==
    cmd \in {"sync", "publish"} /\ config.dryRun =>
        /\ GitHubEvents = {}
        /\ staged = <<>>
        /\ result.prUrl = Undefined

\* A dry run that had a token and changes to publish
C23_Witness ==
    /\ pc = "done" /\ cmd = "sync" /\ config.dryRun /\ config.createPR
    /\ Truthy(config.githubToken) /\ Len(changed) > 0
    /\ result.success /\ result.message = DryRunMsg

-----------------------------------------------------------------------------
(* Claims about temporary credential files (SpecTemp) *)

Resolutions == DOMAIN world

TempNames(i) == {world[i].temps[k].path : k \in DOMAIN world[i].temps}

\* C24: across the credential resolutions of one process no two temporary
\* files share a name, and every file a resolution wrote still holds what that
\* resolution wrote, also when two resolutions fall in the same millisecond
C24_ProcessUniqueTempNames ==
    /\ \A i, j \in Resolutions : i < j => TempNames(i) \cap TempNames(j) = {}
    /\ \A i \in Resolutions : \A k \in DOMAIN world[i].temps :
          FileOf(files, world[i].temps[k].path) = world[i].temps[k].content

-----------------------------------------------------------------------------
(* Claims about the order of detection and writing (Spec) *)

\* Detection of a runSync has ended and nothing was written since
DetectionEnded == cmd = "sync" /\ pc = "save"

\* C25: in runSync nothing is written while the sources are fetched or the
\* changes detected, the changed subset is the one detectChangedSchemas
\* computes over the directory as earlier runs left it, and the directory
\* changes only in the save step that follows detection
C25_DetectionBeforeWrites ==
    /\ [](cmd = "sync" /\ pc \in {"fetch", "save"} => written = {} /\ disk \in PriorDisks)
    /\ [](DetectionEnded => /\ changed = detectChangedSchemas(crds, disk).changed
                      /\ result.changedSchemas = changed)
    /\ [][cmd = "sync" /\ (disk' # disk \/ written' # written) =>
             DetectionEnded /\ changed' = changed]_vars

\* A run that found some records changed and others unchanged, and then wrote
C25_Witness ==
    /\ cmd = "sync" /\ pc = "publish" /\ disk \notin PriorDisks
    /\ changed # <<>> /\ Len(changed) < Len(crds)
    /\ detectChangedSchemas(crds, disk).changed = <<>>

-----------------------------------------------------------------------------
(* Claims about what a run hands to the pull request (Spec) *)

\* a can be had from b by leaving elements out
RECURSIVE IsSubsequence(_, _)
IsSubsequence(a, b) ==
    IF a = <<>> THEN TRUE
    ELSE IF b = <<>> THEN FALSE
    ELSE IF Head(a) = Head(b) THEN IsSubsequence(Tail(a), Tail(b))
    ELSE IsSubsequence(a, Tail(b))

\* createPRWithFiles was called by this run of runSync
PullRequestAttempted == cmd = "sync" /\ GitHubEvents # {}

\* C26: in every result of runSync changedSchemas is a subsequence of
\* generatedSchemas; when the pull request is created, the content staged for
\* each changed record is the text saveSchemas wrote in this run for the
\* record's canonical path, taken from the returned map and never the '{}'
\* fallback
C26_StagedIsWhatWasWritten ==
    cmd = "sync" =>
        /\ IsSubsequence(result.changedSchemas, result.generatedSchemas)
        /\ PullRequestAttempted =>
              \A i \in DOMAIN result.changedSchemas :
                 LET path == SchemaPath(result.changedSchemas[i])
                 IN /\ path \in written
                    /\ FileOf(files, path) # Undefined
                    /\ FileOf(staged, path) = FileOf(files, path)
                    /\ FileOf(staged, path) = disk[path]

\* A pull request for the changed records of a run that also had unchanged ones
C26_Witness ==
    /\ PullRequestAttempted /\ pc = "done" /\ result.prUrl # Undefined
    /\ result.changedSchemas # <<>>
    /\ Len(result.changedSchemas) < Len(result.generatedSchemas)
    /\ \E i \in DOMAIN changed : changed[i].kind # ToLowerCase(changed[i].kind)

-----------------------------------------------------------------------------
(* Claims about disabled sources (Spec) *)

\* The k-th configured source has its flag false or omitted
NotEnabled(k) == config.sources[k].enabled # Bool(TRUE)

\* C28: in runSync and downloadCRDsFromSources a source whose enabled flag is
\* false or omitted is never fetched, contributes no records and adds no
\* entry to the error list
C28_OnlyEnabledSourcesFetched ==
    cmd \in {"sync", "download"} =>
        \A k \in DOMAIN config.sources :
            NotEnabled(k) =>
                /\ \A e \in DOMAIN world : world[e].step = "fetch" => world[e].source # k
                /\ \A i \in DOMAIN crds : crds[i].source # config.sources[k]
                /\ \A i \in DOMAIN result.errors :
                      ~Carries(result.errors[i], config.sources[k].name)
                /\ pc # "fetch" => Len(FetchEvents) = Len(EnabledFrom(1))

\* A finished run over a source with the flag false or omitted and an
\* enabled one that gave records
C28_Witness ==
    /\ cmd \in {"sync", "download"} /\ pc = "done"
    /\ \E k \in DOMAIN config.sources : NotEnabled(k)
    /\ \E k \in DOMAIN config.sources : ~NotEnabled(k)
    /\ crds # <<>>

-----------------------------------------------------------------------------
(* Claims about records that share a path (SpecFiles) *)

\* The records i < j of the list have the same canonical path and no later
\* record has it
LaterOfSamePath(i, j) ==
    /\ i < j
    /\ CanonicalPath(crds[i]) = CanonicalPath(crds[j])
    /\ \A k \in DOMAIN crds : k > j => CanonicalPath(crds[k]) # CanonicalPath(crds[j])

\* C29: when two records of one saveSchemas call have the same canonical
\* path, after the call the file and the returned map entry for that path
\* hold the converted schema of the later record, and the map has one entry
\* for the path
C29_LaterRecordWins ==
    Saved =>
        \A i, j \in DOMAIN crds :
            LaterOfSamePath(i, j) =>
                /\ disk[CanonicalPath(crds[j])] = SavedContent(crds[j])
                /\ FileOf(files, CanonicalPath(crds[j])) = SavedContent(crds[j])
                /\ Cardinality({k \in DOMAIN files : files[k][1] = CanonicalPath(crds[j])}) = 1

\* Two records that differ in letter case and schema were saved to one path
C29_Witness ==
    /\ Saved
    /\ \E i, j \in DOMAIN crds :
          /\ LaterOfSamePath(i, j)
          /\ crds[i].kind # crds[j].kind
          /\ SavedContent(crds[i]) # SavedContent(crds[j])

-----------------------------------------------------------------------------
(* Claims about a run after a failed publication (SpecRerun) *)

\* The first run has ended: it wrote its files and failed creating the pull
\* request, for want of a token or because a GitHub call failed
FailedAtPublish == RerunAt = 0 /\ pc = "done" /\ SaveDone /\ PublishThrew

\* The second run is past detection, and the first had failed at the publish step
SecondRunDetected ==
    /\ RerunAt # 0 /\ pc \in {"save", "publish", "done"}
    /\ ~world[RerunAt].result.success
    /\ world[RerunAt].result.changedSchemas # <<>>
    /\ \E k \in 1..RerunAt : world[k].step = "save" /\ ~world[k].threw

PublishErrors ==
    {TokenRequiredMsg, GitHubFailedMsg, NotFoundMsg, ReferenceExistsMsg, ReferenceMissingMsg}

\* C30: a runSync that fails at the publish step ends with success false and
\* the error as its message and in its error list, with every fetched schema
\* on disk and generatedSchemas and changedSchemas populated; a second run
\* over the same inputs then detects no changes and creates no pull request
C30_NoRollbackThenNoChanges ==
    /\ FailedAtPublish =>
          /\ ~result.success
          /\ result.message \in PublishErrors
          /\ result.errors # <<>> /\ result.errors[Len(result.errors)] = result.message
          /\ result.generatedSchemas = crds /\ crds # <<>>
          /\ result.changedSchemas = changed /\ changed # <<>>
          /\ \A i \in DOMAIN crds :
                (\A j \in DOMAIN crds : j > i => SchemaPath(crds[j]) # SchemaPath(crds[i]))
                   => disk[SchemaPath(crds[i])] = SavedContent(crds[i])
    /\ SecondRunDetected =>
          /\ changed = <<>>
          /\ \A k \in DOMAIN world : k > RerunAt => world[k].step # "publish"
          /\ result.prUrl = Undefined

====
